---- MODULE Spec2Model ----
(***************************************************************************)
(* A model of the circus deterministic-simulation kernel:                  *)
(*   - the buggifier (circus-buggify, circus-simulation/buggify.rs and the *)
(*     macro based simulation/buggify.rs),                                 *)
(*   - the reactor (DeterministicReactor) with its virtual clock,          *)
(*   - the executor (DeterministicExecutor) polling tasks that await       *)
(*     DeterministicTimer futures.                                         *)
(* Each component has its own specification over the shared variables:     *)
(* SpecBuggify, SpecReactor, and Spec (the executor with reactor, timers   *)
(* and clock); SpecLive is Spec with the fairness of the run() loop.       *)
(***************************************************************************)
EXTENDS Integers, Sequences, FiniteSets, TLC

VARIABLES
    impl,              \* which Buggifier of the repository is modelled
    random,            \* Buggifier.random : Mutex<Option<SmallRng>>
    buggified_lines,   \* Buggifier.buggified_lines : keys of the HashMap
    bq,                \* observer: the last buggifier operation and its result
    hist,              \* observer: per call-site, since the last disable, the first
                       \* result and the number of trues of its queries while enabled
    waits,             \* DeterministicReactor.waits : Vec<ReactorEntry>
    time,              \* DeterministicTime.inner : [base, advance]
    adv,               \* observer: the last reactor operation and its result
    regs,              \* observer: number of register_wait calls so far
    tasks,             \* DeterministicExecutor.tasks : BTreeMap<TaskId, Task>
    task_queue,        \* DeterministicExecutor.task_queue : ArrayQueue<TaskId>
    waker_cache,       \* DeterministicExecutor.waker_cache : keys of the BTreeMap
    next_id,           \* task.rs NEXT_ID
    pc,                \* position of the caller in DeterministicExecutor::run
    polled,            \* observer: number of task polls so far
    completed,         \* observer: the tasks polled to Ready in the current
                       \* run(), in completion order
    user_waits,        \* waits of the DeterministicReactor::default() instance
                       \* that the user program hands to its timers
    user_time,         \* the DeterministicTime of that instance
    platform_random,   \* SimulationPlatform.random : DeterministicRandom
    platform_reactor,  \* SimulationPlatform.reactor : which instance it holds
    opened,            \* observer: the calls of SimulationPlatform::open so far
    threads,           \* per OS thread: its position inside handle_buggify or
                       \* disable_buggify and the locals of that call
    locks              \* per Mutex of the Buggifier: the thread holding it (0:
                       \* none)

bvars == <<impl, random, buggified_lines, bq, hist>>
rvars == <<waits, time, adv, regs>>
evars == <<tasks, task_queue, waker_cache, next_id, pc, polled, completed>>
uvars == <<user_waits, user_time>>
pvars == <<platform_random, platform_reactor, opened>>
lvars == <<threads, locks>>
vars == <<impl, random, buggified_lines, bq, hist, waits, time, adv, regs,
          tasks, task_queue, waker_cache, next_id, pc, polled, completed,
          user_waits, user_time, platform_random, platform_reactor, opened,
          threads, locks>>

(***************************************************************************)
(* Bounds of the model.                                                    *)
(***************************************************************************)
MaxDraws == 3          \* Bernoulli draws taken from one RNG
MaxRegs == 4           \* register_wait calls in SpecReactor
MaxTasks == 2          \* tasks spawned on the executor
MaxTimers == 2         \* timers awaited by all the tasks spawned, together
MaxWall == 4           \* readings of the wall clock (Instant::now())
MaxAdvance == 6        \* virtual time accumulated by direct advance calls
MaxOpens == 2          \* calls of open made by all the tasks spawned, together
MaxSpawns == 104       \* tasks spawned on the executor when its queue is filled

Seeds == {42, 7}
\* probabilities in percent: 0.05 (the default), 0.5 and 1.0
Probs == {5, 50, 100}
DefaultProb == 5
\* the uniform values (percent) an RNG draw can produce
Draws == {3, 99}
Durations == {0, 1, 2}

Min(S) == CHOOSE x \in S : \A y \in S : x <= y

(***************************************************************************)
(* Buggifier                                                               *)
(***************************************************************************)
Impls == {"circus_buggify", "circus_simulation", "simulation"}

\* Option<SmallRng>: None, or Some(rng) identified by its seed and the number
\* of Bernoulli draws taken from it so far.
None == [some |-> FALSE, seed |-> 0, pos |-> 0]
Some(seed) == [some |-> TRUE, seed |-> seed, pos |-> 0]

\* A user call-site: the lexical place of a call of a public entry point.
Site(file, line, column, entry) ==
    [file |-> file, line |-> line, column |-> column, entry |-> entry]

NoSite == Site("", 0, 0, "")

\* The call-sites of the user program, per buggifier.
Sites(i) ==
    CASE i = "circus_buggify" ->
            { Site("main.rs", 10, 8, "Buggifier::buggify"),
              Site("main.rs", 20, 8, "Buggifier::buggify_with_prob"),
              Site("main.rs", 30, 8, "Buggifier::buggify_with_prob"),
              Site("main.rs", 40, 8, "buggify"),
              Site("main.rs", 50, 8, "buggify_with_prob") }
      [] i = "circus_simulation" ->
            { Site("main.rs", 10, 8, "Buggifier::buggify"),
              Site("main.rs", 20, 8, "Buggifier::buggify_with_prob"),
              Site("main.rs", 30, 8, "Buggifier::buggify_with_prob") }
      [] OTHER ->
            { Site("main.rs", 10, 8, "buggify!()"),
              Site("main.rs", 10, 40, "buggify!(p)"),
              Site("main.rs", 20, 8, "buggify!(p)") }

AllSites == UNION { Sites(i) : i \in Impls }

\* Entry points carrying #[track_caller]: Location::caller() is the user's call.
TrackCaller(i, entry) ==
    \/ entry = "Buggifier::buggify"
    \/ i = "circus_buggify" /\ entry \in {"buggify", "buggify_with_prob"}

\* Location::caller() as seen inside the entry point.  Without #[track_caller]
\* on the entry point it is the place of the Location::caller() call itself.
caller(i, site) ==
    IF TrackCaller(i, site.entry) \/ i = "simulation"
    THEN [file |-> site.file, line |-> site.line, column |-> site.column]
    ELSE IF i = "circus_buggify"
         THEN [file |-> "circus-buggify/src/lib.rs", line |-> 76, column |-> 24]
         ELSE [file |-> "circus-simulation/src/buggify.rs", line |-> 35, column |-> 24]

\* format!("{}:{}", file, line), and format!("{}:{},{}", file!(), line!(),
\* column!()) in the macro.
format(i, loc) ==
    IF i = "simulation" THEN <<loc.file, loc.line, loc.column>>
    ELSE <<loc.file, loc.line>>

\* The memoisation key the entry point hands to handle_buggify.
line_of(i, site) == format(i, caller(i, site))

\* The probabilities an entry point can be called with.
ProbsOf(entry) ==
    IF entry \in {"Buggifier::buggify", "buggify", "buggify!()"}
    THEN {DefaultProb} ELSE Probs

\* Rng::gen_bool(p) on a uniform value u: true with probability p, always for 1.0.
gen_bool(u, p) == p = 100 \/ u < p

draw(rnd) == [rnd EXCEPT !.pos = @ + 1]

\* a handle_buggify with the two tests swapped: gen_bool(p) && !contains_key
handle_buggify_draw_first(rnd, lines, line, probability, u) ==
    IF ~rnd.some
    THEN [result |-> FALSE, random |-> rnd, buggified_lines |-> lines]
    ELSE IF gen_bool(u, probability) /\ line \notin lines
         THEN [result |-> TRUE, random |-> draw(rnd),
               buggified_lines |-> lines \cup {line}]
         ELSE [result |-> FALSE, random |-> draw(rnd),
               buggified_lines |-> lines]

handle_buggify_no_insert(rnd, lines, line, probability, u) ==
    IF ~rnd.some
    THEN [result |-> FALSE, random |-> rnd, buggified_lines |-> lines]
    ELSE IF line \notin lines
         THEN [result |-> gen_bool(u, probability), random |-> draw(rnd),
               buggified_lines |-> lines]
         ELSE [result |-> FALSE, random |-> rnd, buggified_lines |-> lines]

handle_buggify_ungated(rnd, lines, line, probability, u) ==
    IF line \notin lines /\ gen_bool(u, probability)
    THEN [result |-> TRUE, random |-> rnd, buggified_lines |-> lines \cup {line}]
    ELSE [result |-> FALSE, random |-> rnd, buggified_lines |-> lines]

handle_buggify_draw_on_fire_only(rnd, lines, line, probability, u) ==
    IF ~rnd.some
    THEN [result |-> FALSE, random |-> rnd, buggified_lines |-> lines]
    ELSE IF line \notin lines /\ gen_bool(u, probability)
         THEN [result |-> TRUE, random |-> draw(rnd),
               buggified_lines |-> lines \cup {line}]
         ELSE [result |-> FALSE, random |-> rnd, buggified_lines |-> lines]

\* handle_buggify: `!contains_key(&line) && gen_bool(p)` short-circuits, so the
\* draw is taken exactly when the key is absent.
handle_buggify(rnd, lines, line, probability, u) ==
    IF ~rnd.some
    THEN [result |-> FALSE, random |-> rnd, buggified_lines |-> lines]
    ELSE IF line \notin lines
         THEN IF gen_bool(u, probability)
              THEN [result |-> TRUE, random |-> draw(rnd),
                    buggified_lines |-> lines \cup {line}]
              ELSE [result |-> FALSE, random |-> draw(rnd),
                    buggified_lines |-> lines]
         ELSE [result |-> FALSE, random |-> rnd, buggified_lines |-> lines]

is_buggify_enabled(rnd) == rnd.some

enable_buggify_clearing(rnd, lines, seed) ==
    [random |-> Some(seed), buggified_lines |-> {}]

\* enable_buggify: *data = Some(r); the map is not touched.
enable_buggify(rnd, lines, seed) ==
    [random |-> Some(seed), buggified_lines |-> lines]

\* disable_buggify: *data = None; map.clear() -- the macro based buggifier of
\* simulation/src/buggify.rs has no map.clear().
disable_buggify(i, rnd, lines) ==
    [random |-> None,
     buggified_lines |-> IF i = "simulation" THEN lines ELSE {}]

\* observers
NoHist == [first |-> "none", trues |-> 0]

Observe(h, result) ==
    [first |-> IF h.first = "none" THEN (IF result THEN "true" ELSE "false")
               ELSE h.first,
     trues |-> IF result /\ h.trues < 2 THEN h.trues + 1 ELSE h.trues]

BOp(op, site, p, seed, result) ==
    [op |-> op, site |-> site, p |-> p, seed |-> seed, result |-> result]

\* A call of a public buggify entry point at a user call-site.
Query(site, p, u) ==
    LET r == handle_buggify(random, buggified_lines, line_of(impl, site), p, u)
    IN  /\ r.random.pos <= MaxDraws
        /\ random' = r.random
        /\ buggified_lines' = r.buggified_lines
        /\ bq' = BOp("query", site, p, 0, r.result)
        /\ hist' = IF is_buggify_enabled(random)
                   THEN [hist EXCEPT ![site] = Observe(@, r.result)]
                   ELSE hist
        /\ UNCHANGED <<impl, rvars, evars, uvars, pvars, lvars>>

Enable(seed) ==
    LET r == enable_buggify(random, buggified_lines, seed)
    IN  /\ random' = r.random
        /\ buggified_lines' = r.buggified_lines
        /\ bq' = BOp("enable", NoSite, 0, seed, is_buggify_enabled(random))
        /\ UNCHANGED <<impl, hist, rvars, evars, uvars, pvars, lvars>>

Disable ==
    LET r == disable_buggify(impl, random, buggified_lines)
    IN  /\ random' = r.random
        /\ buggified_lines' = r.buggified_lines
        /\ bq' = BOp("disable", NoSite, 0, 0, FALSE)
        /\ hist' = [s \in DOMAIN hist |-> NoHist]
        /\ UNCHANGED <<impl, rvars, evars, uvars, pvars, lvars>>

\* The parts of the state the other components start from.
ReactorInit ==
    /\ waits = <<>>
    /\ time = [base |-> 0, advance |-> 0]
    /\ adv = [op |-> "init", some |-> FALSE, duration |-> 0, waker |-> 0,
              seq |-> 0, prev |-> -1]
    /\ regs = 0

ExecutorInit ==
    /\ tasks = <<>>
    /\ task_queue = <<>>
    /\ waker_cache = {}
    /\ next_id = 0
    /\ pc = "idle"
    /\ polled = 0
    /\ completed = <<>>

\* DeterministicReactor::default() called by the user program; no
\* SimulationPlatform yet
UserReactorInit ==
    /\ user_waits = <<>>
    /\ user_time = [base |-> 0, advance |-> 0]
    /\ platform_random = None
    /\ platform_reactor = "none"
    /\ opened = <<>>

\* the OS threads that share the Buggifier
MaxThreads == 2
Threads == 1..MaxThreads

\* a thread outside every Buggifier method
IdleThread ==
    [pc |-> "idle", site |-> NoSite, seed |-> 0, absent |-> FALSE,
     result |-> FALSE]

\* no thread is inside a method, both mutexes are free
ThreadsInit ==
    /\ threads = [t \in Threads |-> IdleThread]
    /\ locks = [random |-> 0, buggified_lines |-> 0]

\* Buggifier::default(): disabled, nothing fired.
BuggifyInitOf(i) ==
    /\ ThreadsInit
    /\ impl = i
    /\ random = None
    /\ buggified_lines = {}
    /\ bq = BOp("init", NoSite, 0, 0, FALSE)
    /\ hist = [s \in Sites(i) |-> NoHist]

InitBuggify ==
    /\ \E i \in Impls : BuggifyInitOf(i)
    /\ ReactorInit
    /\ ExecutorInit
    /\ UserReactorInit

NextBuggify ==
    \/ \E s \in Sites(impl) : \E p \in ProbsOf(s.entry) : \E u \in Draws :
          Query(s, p, u)
    \/ \E seed \in Seeds : Enable(seed)
    \/ Disable

SpecBuggify == InitBuggify /\ [][NextBuggify]_vars

(***************************************************************************)
(* The Buggifier shared by several threads: the methods step by step,      *)
(* with the two parking_lot mutexes they take                              *)
(***************************************************************************)
Mutexes == {"random", "buggified_lines"}

disable_lock_order_reversed == <<"buggified_lines", "random">>

\* disable_buggify: self.random.lock(), then self.buggified_lines.lock()
disable_lock_order == <<"random", "buggified_lines">>

\* handle_buggify: self.random.lock(), then self.buggified_lines.lock()
handle_lock_order == <<"random", "buggified_lines">>

\* the call-sites queried through an entry point with the default probability
ThreadSites == {s \in Sites("circus_buggify") : ProbsOf(s.entry) = {DefaultProb}}

\* the threads that have entered handle_buggify and not yet drawn
BeforeDraw ==
    {t \in Threads : threads[t].pc \in
        {"q_lock_random", "q_lock_lines", "q_check", "q_draw"}}

\* Mutex::lock: taken by the thread when no thread holds it
lock(t, m) ==
    /\ locks[m] = 0
    /\ locks' = [locks EXCEPT ![m] = t]

\* the mutex a thread is about to lock ("none" when it is not at a lock call)
Wants(t) ==
    CASE threads[t].pc = "q_lock_random" -> handle_lock_order[1]
      [] threads[t].pc = "q_lock_lines" -> handle_lock_order[2]
      [] threads[t].pc = "d_lock_first" -> disable_lock_order[1]
      [] threads[t].pc = "d_lock_second" -> disable_lock_order[2]
      [] threads[t].pc = "e_lock_random" -> "random"
      [] OTHER -> "none"

\* a thread calls a buggify entry point at a call-site
StartQuery(t, site) ==
    /\ threads[t].pc = "idle"
    /\ random.pos + Cardinality(BeforeDraw) < MaxDraws
    /\ threads' = [threads EXCEPT ![t] =
                      [IdleThread EXCEPT !.pc = "q_lock_random", !.site = site]]
    /\ UNCHANGED <<locks, bvars, rvars, evars, uvars, pvars>>

\* let mut lock = self.random.lock(); match (*lock).as_mut(): the None arm
\* returns false
QLockRandom(t) ==
    /\ threads[t].pc = "q_lock_random"
    /\ lock(t, handle_lock_order[1])
    /\ threads' = [threads EXCEPT ![t].pc =
                      IF random.some THEN "q_lock_lines" ELSE "q_unlock_random"]
    /\ UNCHANGED <<bvars, rvars, evars, uvars, pvars>>

\* let mut already_buggified = self.buggified_lines.lock()
QLockLines(t) ==
    /\ threads[t].pc = "q_lock_lines"
    /\ lock(t, handle_lock_order[2])
    /\ threads' = [threads EXCEPT ![t].pc = "q_check"]
    /\ UNCHANGED <<bvars, rvars, evars, uvars, pvars>>

\* !already_buggified.contains_key(&line)
QCheck(t) ==
    /\ threads[t].pc = "q_check"
    /\ LET absent == line_of(impl, threads[t].site) \notin buggified_lines
       IN  threads' = [threads EXCEPT ![t].absent = absent,
                                      ![t].pc = IF absent THEN "q_draw"
                                                ELSE "q_unlock_lines"]
    /\ UNCHANGED <<locks, bvars, rvars, evars, uvars, pvars>>

\* && deterministic_random.gen_bool(probability)
QDraw(t, u) ==
    /\ threads[t].pc = "q_draw"
    /\ random' = draw(random)
    /\ threads' = [threads EXCEPT ![t].pc = IF gen_bool(u, DefaultProb)
                                            THEN "q_insert"
                                            ELSE "q_unlock_lines"]
    /\ UNCHANGED <<locks, impl, buggified_lines, bq, hist, rvars, evars, uvars,
                   pvars>>

\* already_buggified.insert(line, true); return true
QInsert(t) ==
    /\ threads[t].pc = "q_insert"
    /\ buggified_lines' = buggified_lines \cup {line_of(impl, threads[t].site)}
    /\ threads' = [threads EXCEPT ![t].result = TRUE,
                                  ![t].pc = "q_unlock_lines"]
    /\ UNCHANGED <<locks, impl, random, bq, hist, rvars, evars, uvars, pvars>>

\* the guard already_buggified is dropped
QUnlockLines(t) ==
    /\ threads[t].pc = "q_unlock_lines"
    /\ locks' = [locks EXCEPT ![handle_lock_order[2]] = 0]
    /\ threads' = [threads EXCEPT ![t].pc = "q_unlock_random"]
    /\ UNCHANGED <<bvars, rvars, evars, uvars, pvars>>

\* the guard lock is dropped and handle_buggify returns
QUnlockRandom(t) ==
    /\ threads[t].pc = "q_unlock_random"
    /\ locks' = [locks EXCEPT ![handle_lock_order[1]] = 0]
    /\ bq' = BOp("query", threads[t].site, DefaultProb, 0, threads[t].result)
    /\ hist' = IF is_buggify_enabled(random)
               THEN [hist EXCEPT ![threads[t].site] =
                                    Observe(@, threads[t].result)]
               ELSE hist
    /\ threads' = [threads EXCEPT ![t] = IdleThread]
    /\ UNCHANGED <<impl, random, buggified_lines, rvars, evars, uvars, pvars>>

\* a thread calls disable_buggify
StartDisable(t) ==
    /\ threads[t].pc = "idle"
    /\ threads' = [threads EXCEPT ![t].pc = "d_lock_first"]
    /\ UNCHANGED <<locks, bvars, rvars, evars, uvars, pvars>>

\* the first lock() of disable_buggify: let mut data = self.random.lock();
\* *data = None
DLockFirst(t) ==
    /\ threads[t].pc = "d_lock_first"
    /\ lock(t, disable_lock_order[1])
    /\ random' = IF disable_lock_order[1] = "random" THEN None ELSE random
    /\ threads' = [threads EXCEPT ![t].pc = "d_lock_second"]
    /\ UNCHANGED <<impl, buggified_lines, bq, hist, rvars, evars, uvars, pvars>>

\* the second lock() of disable_buggify: let mut map =
\* self.buggified_lines.lock(); map.clear(), with both guards held
DLockSecond(t) ==
    /\ threads[t].pc = "d_lock_second"
    /\ lock(t, disable_lock_order[2])
    /\ LET r == disable_buggify(impl, random, buggified_lines)
       IN  /\ random' = r.random
           /\ buggified_lines' = r.buggified_lines
    /\ hist' = [s \in DOMAIN hist |-> NoHist]
    /\ threads' = [threads EXCEPT ![t].pc = "d_unlock"]
    /\ UNCHANGED <<impl, bq, rvars, evars, uvars, pvars>>

\* both guards are dropped and disable_buggify returns
DUnlock(t) ==
    /\ threads[t].pc = "d_unlock"
    /\ locks' = [m \in Mutexes |-> 0]
    /\ bq' = BOp("disable", NoSite, 0, 0, FALSE)
    /\ threads' = [threads EXCEPT ![t] = IdleThread]
    /\ UNCHANGED <<impl, random, buggified_lines, hist, rvars, evars, uvars,
                   pvars>>

\* a thread calls enable_buggify(r)
StartEnable(t, seed) ==
    /\ threads[t].pc = "idle"
    /\ threads' = [threads EXCEPT ![t].pc = "e_lock_random", ![t].seed = seed]
    /\ UNCHANGED <<locks, bvars, rvars, evars, uvars, pvars>>

\* let mut data = self.random.lock(); *data = Some(r)
ELockRandom(t) ==
    /\ threads[t].pc = "e_lock_random"
    /\ lock(t, "random")
    /\ LET r == enable_buggify(random, buggified_lines, threads[t].seed)
       IN  /\ random' = r.random
           /\ buggified_lines' = r.buggified_lines
    /\ threads' = [threads EXCEPT ![t].pc = "e_unlock"]
    /\ UNCHANGED <<impl, bq, hist, rvars, evars, uvars, pvars>>

\* the guard is dropped and enable_buggify returns
EUnlock(t) ==
    /\ threads[t].pc = "e_unlock"
    /\ locks' = [locks EXCEPT !["random"] = 0]
    /\ bq' = BOp("enable", NoSite, 0, threads[t].seed, TRUE)
    /\ threads' = [threads EXCEPT ![t] = IdleThread]
    /\ UNCHANGED <<impl, random, buggified_lines, hist, rvars, evars, uvars,
                   pvars>>

InitThreads ==
    /\ BuggifyInitOf("circus_buggify")
    /\ ReactorInit
    /\ ExecutorInit
    /\ UserReactorInit

NextThreads ==
    \E t \in Threads :
        \/ \E site \in ThreadSites : StartQuery(t, site)
        \/ QLockRandom(t)
        \/ QLockLines(t)
        \/ QCheck(t)
        \/ \E u \in Draws : QDraw(t, u)
        \/ QInsert(t)
        \/ QUnlockLines(t)
        \/ QUnlockRandom(t)
        \/ StartDisable(t)
        \/ DLockFirst(t)
        \/ DLockSecond(t)
        \/ DUnlock(t)
        \/ \E seed \in Seeds : StartEnable(t, seed)
        \/ ELockRandom(t)
        \/ EUnlock(t)

SpecThreads == InitThreads /\ [][NextThreads]_vars

(***************************************************************************)
(* Virtual clock (DeterministicTime)                                       *)
(***************************************************************************)
\* DeterministicTime::now: base + advance
now(t) == t.base + t.advance

\* an advance that stores the last duration in place of the sum
advance_replacing(t, duration) == [t EXCEPT !.advance = duration]

advance_backwards(t, duration) == [t EXCEPT !.advance = @ - duration]

\* DeterministicTime::advance: advance += duration
advance(t, duration) == [t EXCEPT !.advance = @ + duration]

reset_keeping_advance(t, wall) == [t EXCEPT !.base = wall]

\* DeterministicTime::reset: base = Instant::now(); advance = 0
reset(t, wall) == [base |-> wall, advance |-> 0]

(***************************************************************************)
(* Reactor (DeterministicReactor)                                          *)
(***************************************************************************)
\* the FakeWaker instances of the reactor's unit tests
FakeWakers == {101, 102}

\* ReactorEntry::new; seq is the observer's registration number, which the
\* entry's Ord (duration only) never reads.
ReactorEntry(duration, waker, seq) ==
    [duration |-> duration, waker |-> waker, seq |-> seq]

\* impl Ord for ReactorEntry: self.duration.cmp(&other.duration)
cmp_le(a, b) == a.duration <= b.duration

RECURSIVE insert_stable(_, _)
insert_stable(e, s) ==
    IF s = <<>> THEN <<e>>
    ELSE IF cmp_le(Head(s), e) THEN <<Head(s)>> \o insert_stable(e, Tail(s))
         ELSE <<e>> \o s

RECURSIVE insert_unstable(_, _)
insert_unstable(e, s) ==
    IF s = <<>> THEN <<e>>
    ELSE IF ~cmp_le(e, Head(s)) THEN <<Head(s)>> \o insert_unstable(e, Tail(s))
         ELSE <<e>> \o s

RECURSIVE sort_from(_, _)
sort_from(done, rest) ==
    IF rest = <<>> THEN done
    ELSE sort_from(insert_stable(Head(rest), done), Tail(rest))

RECURSIVE sort_unstable_from(_, _)
sort_unstable_from(done, rest) ==
    IF rest = <<>> THEN done
    ELSE sort_unstable_from(insert_unstable(Head(rest), done), Tail(rest))

sort_unstable(s) == sort_unstable_from(<<>>, s)

sort_skipped(s) == s

sort_descending(s) ==
    LET up == sort_from(<<>>, s)
    IN  [i \in 1..Len(up) |-> up[Len(up) + 1 - i]]

\* Vec::sort: a stable sort by the entries' Ord.
sort(s) == sort_from(<<>>, s)

\* DeterministicReactor::register_wait: waits.push(ReactorEntry::new(..))
register_wait(ws, duration, waker, seq) ==
    Append(ws, ReactorEntry(duration, waker, seq))

advance_simulation_rebased(ws, t) ==
    IF ws # <<>>
    THEN LET sorted == sort(ws)
             next == Head(sorted)
             rest == Tail(sorted)
         IN  [some |-> TRUE, duration |-> next.duration, waker |-> next.waker,
              seq |-> next.seq,
              waits |-> [i \in DOMAIN rest |->
                           [rest[i] EXCEPT !.duration = @ - next.duration]],
              time |-> advance(t, next.duration)]
    ELSE [some |-> FALSE, duration |-> 0, waker |-> 0, seq |-> 0,
          waits |-> ws, time |-> t]

advance_simulation_frozen_clock(ws, t) ==
    IF ws # <<>>
    THEN LET sorted == sort(ws)
             next == Head(sorted)
         IN  [some |-> TRUE, duration |-> next.duration, waker |-> next.waker,
              seq |-> next.seq, waits |-> Tail(sorted), time |-> t]
    ELSE [some |-> FALSE, duration |-> 0, waker |-> 0, seq |-> 0,
          waits |-> ws, time |-> t]

\* an advance_simulation that fires every entry of the minimum duration at
\* once: the entries tied with the removed one leave the reactor with it.
advance_simulation_ties_together(ws, t) ==
    IF ws # <<>>
    THEN LET sorted == sort(ws)
             next == Head(sorted)
             later(e) == e.duration > next.duration
         IN  [some |-> TRUE, duration |-> next.duration, waker |-> next.waker,
              seq |-> next.seq, waits |-> SelectSeq(Tail(sorted), later),
              time |-> advance(t, next.duration)]
    ELSE [some |-> FALSE, duration |-> 0, waker |-> 0, seq |-> 0,
          waits |-> ws, time |-> t]

\* an advance_simulation that reports Some(0) on an empty reactor
advance_simulation_some_on_empty(ws, t) ==
    IF ws # <<>>
    THEN LET sorted == sort(ws)
             next == Head(sorted)
         IN  [some |-> TRUE, duration |-> next.duration, waker |-> next.waker,
              seq |-> next.seq, waits |-> Tail(sorted),
              time |-> advance(t, next.duration)]
    ELSE [some |-> TRUE, duration |-> 0, waker |-> 0, seq |-> 0,
          waits |-> ws, time |-> t]

\* DeterministicReactor::advance_simulation: sort, remove(0), advance the
\* clock by the removed entry's duration, wake its waker.
advance_simulation(ws, t) ==
    IF ws # <<>>
    THEN LET sorted == sort(ws)
             next == Head(sorted)
         IN  [some |-> TRUE, duration |-> next.duration, waker |-> next.waker,
              seq |-> next.seq, waits |-> Tail(sorted),
              time |-> advance(t, next.duration)]
    ELSE [some |-> FALSE, duration |-> 0, waker |-> 0, seq |-> 0,
          waits |-> ws, time |-> t]

\* observer of the reactor: the last operation, what it returned, and the
\* duration returned by the advance right before it (-1 if the operation
\* before was not an advance that returned Some).
ROp(op, some, duration, waker, seq, prev) ==
    [op |-> op, some |-> some, duration |-> duration, waker |-> waker,
     seq |-> seq, prev |-> prev]

PrevOf(a) == IF a.op = "advance" /\ a.some THEN a.duration ELSE -1

\* register_wait called directly on the reactor with a FakeWaker
RegisterWait(duration, waker) ==
    /\ regs < MaxRegs
    /\ waits' = register_wait(waits, duration, waker, regs + 1)
    /\ regs' = regs + 1
    /\ adv' = ROp("register", FALSE, duration, waker, regs + 1, -1)
    /\ UNCHANGED <<time, bvars, evars, uvars, pvars, lvars>>

\* advance_simulation called directly on the reactor
AdvanceSimulation ==
    LET r == advance_simulation(waits, time)
    IN  /\ waits' = r.waits
        /\ time' = r.time
        /\ adv' = ROp("advance", r.some, r.duration, r.waker, r.seq, PrevOf(adv))
        /\ UNCHANGED <<regs, bvars, evars, uvars, pvars, lvars>>

BuggifyIdle == BuggifyInitOf("circus_buggify")

InitReactor ==
    /\ BuggifyIdle
    /\ waits = <<>>
    /\ time = [base |-> 0, advance |-> 0]
    /\ adv = ROp("init", FALSE, 0, 0, 0, -1)
    /\ regs = 0
    /\ ExecutorInit
    /\ UserReactorInit

NextReactor ==
    \/ \E d \in Durations : \E w \in FakeWakers : RegisterWait(d, w)
    \/ AdvanceSimulation

SpecReactor == InitReactor /\ [][NextReactor]_vars

(***************************************************************************)
(* The clock driven directly, as by the tests of time.rs                   *)
(***************************************************************************)
\* time.advance(duration); the observer keeps now() before the call in prev
ClockAdvance(duration) ==
    /\ time.advance + duration <= MaxAdvance
    /\ time' = advance(time, duration)
    /\ adv' = ROp("clock_advance", TRUE, duration, 0, 0, now(time))
    /\ UNCHANGED <<waits, regs, bvars, evars, uvars, pvars, lvars>>

\* time.reset(): Instant::now() is monotonic, so the instant read is not
\* before the base read earlier
ClockReset(wall) ==
    /\ wall >= time.base
    /\ time' = reset(time, wall)
    /\ adv' = ROp("clock_reset", TRUE, 0, 0, 0, now(time))
    /\ UNCHANGED <<waits, regs, bvars, evars, uvars, pvars, lvars>>

NextClock ==
    \/ \E d \in Durations : ClockAdvance(d)
    \/ \E wall \in 0..MaxWall : ClockReset(wall)

\* DeterministicTime::new(): nothing advanced yet
InitClock ==
    /\ BuggifyIdle
    /\ ReactorInit
    /\ ExecutorInit
    /\ UserReactorInit

SpecClock == InitClock /\ [][NextClock]_vars

(***************************************************************************)
(* Timer (DeterministicTimer) and tasks                                    *)
(***************************************************************************)
\* created_at is an observer field: the time.now() read by wait_with_reactor
NoTimer ==
    [active |-> FALSE, duration |-> 0, expired_at |-> 0,
     already_registered |-> FALSE, created_at |-> 0]

\* DeterministicTimer::wait_with_reactor: expired_at = time.now() + duration
wait_with_reactor(t, duration) ==
    [active |-> TRUE, duration |-> duration, expired_at |-> now(t) + duration,
     already_registered |-> FALSE, created_at |-> now(t)]

\* a poll_next that tests the expiry first and registers only when pending
poll_next_expired_skips_register(timer, ws, t, waker, seq) ==
    LET expired == timer.expired_at <= now(t)
        first == ~timer.already_registered /\ ~expired
    IN  [ready |-> expired,
         timer |-> [timer EXCEPT !.already_registered = TRUE],
         registered |-> first,
         waits |-> IF first THEN register_wait(ws, timer.duration, waker, seq)
                   ELSE ws]

\* a poll_next without the already_registered test: every poll registers
poll_next_registers_every_poll(timer, ws, t, waker, seq) ==
    [ready |-> timer.expired_at <= now(t),
     timer |-> [timer EXCEPT !.already_registered = TRUE],
     registered |-> TRUE,
     waits |-> register_wait(ws, timer.duration, waker, seq)]

poll_next_ready_when_woken(timer, ws, t, waker, seq) ==
    [ready |-> timer.already_registered \/ timer.expired_at <= now(t),
     timer |-> [timer EXCEPT !.already_registered = TRUE],
     registered |-> ~timer.already_registered,
     waits |-> IF ~timer.already_registered
               THEN register_wait(ws, timer.duration, waker, seq)
               ELSE ws]

\* DeterministicTimer::poll_next: register on the first poll, then compare
\* expired_at with the clock.
poll_next(timer, ws, t, waker, seq) ==
    [ready |-> timer.expired_at <= now(t),
     timer |-> [timer EXCEPT !.already_registered = TRUE],
     registered |-> ~timer.already_registered,
     waits |-> IF ~timer.already_registered
               THEN register_wait(ws, timer.duration, waker, seq)
               ELSE ws]

(***************************************************************************)
(* Simulated platform (SimulationPlatform)                                 *)
(***************************************************************************)
\* the call self.buggifier.buggify() in open: the one call-site of every open
OpenSite ==
    Site("circus-simulation/src/deterministic/platform.rs", 54, 27,
         "Buggifier::buggify")

\* values of random_01() in percent, one per error kind and the two borders
Uniform01 == {5, 10, 20}
\* values of random_between(300u64..2000u64), in milliseconds
Latencies == {300, 817, 1999}
\* outcomes of std::fs::File::open on the host
HostResults == {"Ok", "HostError"}

\* what the RNGs and the host answer during one poll of a task
Inputs == [ub : Draws, uk : Uniform01, ul : Latencies, host : HostResults]
NoInput == [ub |-> 99, uk |-> 20, ul |-> 300, host |-> "Ok"]

error_kind_inclusive(probability) ==
    IF probability <= 10 THEN "UnexpectedEof"
    ELSE IF probability <= 20 THEN "PermissionDenied"
    ELSE "NotFound"

\* the error of the buggified branch of open
error_kind(probability) ==
    IF probability < 10 THEN "UnexpectedEof"
    ELSE IF probability < 20 THEN "PermissionDenied"
    ELSE "NotFound"

\* the state the platform's open works on, with the observers it feeds
Env(rnd, lines, prnd, log, poll_no, inp) ==
    [random |-> rnd, buggified_lines |-> lines, platform_random |-> prnd,
     opened |-> log, poll_no |-> poll_no, inp |-> inp]

\* observer: one call of open; u is the value of random_01() that chose the
\* error (-1 when none was drawn), returned_at is -1 while the call is suspended
OpenCall(task_id, fault, result, latency, u, at, n, poll_no, returned) ==
    [task |-> task_id, fault |-> fault, result |-> result,
     latency |-> latency, u |-> u, called_at |-> at, regs_at_call |-> n,
     poll_at_call |-> poll_no,
     returned_at |-> IF returned THEN at ELSE -1,
     regs_at_return |-> IF returned THEN n ELSE -1,
     poll_at_return |-> IF returned THEN poll_no ELSE -1]

\* observer: the suspended call of the task returns
Returned(log, task_id, at, n, poll_no) ==
    [k \in DOMAIN log |->
        IF log[k].task = task_id /\ log[k].returned_at < 0
        THEN [log[k] EXCEPT !.returned_at = at, !.regs_at_return = n,
                            !.poll_at_return = poll_no]
        ELSE log[k]]

\* an open on a platform whose latency and fault kind are drawn from the
\* generator of the buggifier: every call moves that one stream once more
open_call_one_stream(env, t, task_id, n) ==
    LET b == handle_buggify(env.random, env.buggified_lines,
                            line_of("circus_buggify", OpenSite),
                            DefaultProb, env.inp.ub)
        result == IF b.result THEN error_kind(env.inp.uk) ELSE env.inp.host
        latency == IF b.result THEN 0 ELSE env.inp.ul
    IN  [timer |-> IF b.result THEN NoTimer
                   ELSE wait_with_reactor(t, latency),
         result |-> result,
         env |-> [env EXCEPT
                    !.random = draw(b.random),
                    !.buggified_lines = b.buggified_lines,
                    !.platform_random = draw(@),
                    !.opened = Append(@, OpenCall(task_id, b.result, result,
                                                  latency,
                                                  IF b.result THEN env.inp.uk ELSE -1,
                                                  now(t), n,
                                                  env.poll_no, b.result))]]

\* an open whose query is keyed by the clone that makes the call
open_call_site_per_clone(env, t, task_id, n) ==
    LET b == handle_buggify(env.random, env.buggified_lines,
                            <<"clone", task_id>>,
                            DefaultProb, env.inp.ub)
        result == IF b.result THEN error_kind(env.inp.uk) ELSE env.inp.host
        latency == IF b.result THEN 0 ELSE env.inp.ul
    IN  [timer |-> IF b.result THEN NoTimer
                   ELSE wait_with_reactor(t, latency),
         result |-> result,
         env |-> [env EXCEPT
                    !.random = b.random,
                    !.buggified_lines = b.buggified_lines,
                    !.platform_random = draw(@),
                    !.opened = Append(@, OpenCall(task_id, b.result, result,
                                                  latency,
                                                  IF b.result THEN env.inp.uk ELSE -1,
                                                  now(t), n,
                                                  env.poll_no, b.result))]]

open_call_fault_after_latency(env, t, task_id, n) ==
    LET b == handle_buggify(env.random, env.buggified_lines,
                            line_of("circus_buggify", OpenSite),
                            DefaultProb, env.inp.ub)
        result == IF b.result THEN error_kind(env.inp.uk) ELSE env.inp.host
        latency == env.inp.ul
        prnd == IF b.result THEN draw(draw(env.platform_random))
                ELSE draw(env.platform_random)
    IN  [timer |-> wait_with_reactor(t, latency),
         result |-> result,
         env |-> [env EXCEPT
                    !.random = b.random,
                    !.buggified_lines = b.buggified_lines,
                    !.platform_random = prnd,
                    !.opened = Append(@, OpenCall(task_id, b.result, result,
                                                  latency,
                                                  IF b.result THEN env.inp.uk ELSE -1,
                                                  now(t), n,
                                                  env.poll_no, FALSE))]]

open_call_two_queries(env, t, task_id, n) ==
    LET a == handle_buggify(env.random, env.buggified_lines,
                            line_of("circus_buggify", OpenSite),
                            DefaultProb, 99)
        b == handle_buggify(a.random, a.buggified_lines,
                            line_of("circus_buggify", OpenSite),
                            DefaultProb, env.inp.ub)
        result == IF b.result THEN error_kind(env.inp.uk) ELSE env.inp.host
        latency == IF b.result THEN 0 ELSE env.inp.ul
    IN  [timer |-> IF b.result THEN NoTimer
                   ELSE wait_with_reactor(t, latency),
         result |-> result,
         env |-> [env EXCEPT
                    !.random = b.random,
                    !.buggified_lines = b.buggified_lines,
                    !.platform_random = draw(@),
                    !.opened = Append(@, OpenCall(task_id, b.result, result,
                                                  latency,
                                                  IF b.result THEN env.inp.uk ELSE -1,
                                                  now(t), n,
                                                  env.poll_no, b.result))]]

open_call_returns_before_timer(env, t, task_id, n) ==
    LET b == handle_buggify(env.random, env.buggified_lines,
                            line_of("circus_buggify", OpenSite),
                            DefaultProb, env.inp.ub)
        result == IF b.result THEN error_kind(env.inp.uk) ELSE env.inp.host
        latency == IF b.result THEN 0 ELSE env.inp.ul
    IN  [timer |-> NoTimer,
         result |-> result,
         env |-> [env EXCEPT
                    !.random = b.random,
                    !.buggified_lines = b.buggified_lines,
                    !.platform_random = draw(@),
                    !.opened = Append(@, OpenCall(task_id, b.result, result,
                                                  latency,
                                                  IF b.result THEN env.inp.uk ELSE -1,
                                                  now(t), n,
                                                  env.poll_no, TRUE))]]

\* SimulationPlatform::open up to its return or its first suspension: the
\* buggified branch returns the error at once; otherwise the host's open,
\* a latency drawn from the platform's RNG and a timer of that duration.
open_call(env, t, task_id, n) ==
    LET b == handle_buggify(env.random, env.buggified_lines,
                            line_of("circus_buggify", OpenSite),
                            DefaultProb, env.inp.ub)
        result == IF b.result THEN error_kind(env.inp.uk) ELSE env.inp.host
        latency == IF b.result THEN 0 ELSE env.inp.ul
    IN  [timer |-> IF b.result THEN NoTimer
                   ELSE wait_with_reactor(t, latency),
         result |-> result,
         env |-> [env EXCEPT
                    !.random = b.random,
                    !.buggified_lines = b.buggified_lines,
                    !.platform_random = draw(@),
                    !.opened = Append(@, OpenCall(task_id, b.result, result,
                                                  latency,
                                                  IF b.result THEN env.inp.uk ELSE -1,
                                                  now(t), n,
                                                  env.poll_no, b.result))]]

\* The programs of the tasks: an async block that awaits one timer after the
\* other, each created when the one before has completed.
RECURSIVE SeqsUpTo(_, _)
SeqsUpTo(S, n) ==
    IF n = 0 THEN {<<>>}
    ELSE LET shorter == SeqsUpTo(S, n - 1)
         IN  shorter \cup {Append(q, x) : q \in shorter, x \in S}

Programs == SeqsUpTo(Durations, MaxTimers)

\* The reactor a task's timers hold: a clone of the static REACTOR that run()
\* advances (Timer::wait of the simulation crate registers with Reactor::get()),
\* or the DeterministicReactor::default() instance the user program created
\* and handed to wait_with_reactor.
Reactors == {"static", "user"}

\* Task::new(future) for a future whose timers hold the given reactor.  prog
\* and reg_at are observer fields: the whole program, and now() at the first
\* poll (-1 before it).
TaskOn(durs, reactor) ==
    [durs |-> durs, timer |-> NoTimer, reactor |-> reactor,
     opens |-> 0, result |-> "", prog |-> durs, reg_at |-> -1]

\* Task::new(future) for a future that calls open n times in a loop, on a
\* platform built on the given reactor
OpenTask(n, reactor) ==
    [durs |-> <<>>, timer |-> NoTimer, reactor |-> reactor,
     opens |-> n, result |-> "", prog |-> <<>>, reg_at |-> -1]

\* Task::new(future): the future has not been polled yet
NewTask(durs) == TaskOn(durs, "static")

\* Task::poll: runs the future up to its next suspension point.  n is the
\* number of registrations made so far.
RECURSIVE poll(_, _, _, _, _, _)
poll(task, ws, t, waker, n, env) ==
    IF ~task.timer.active
    THEN IF task.durs # <<>>
         THEN poll([task EXCEPT !.timer = wait_with_reactor(t, Head(task.durs))],
                   ws, t, waker, n, env)
         ELSE IF task.opens > 0
         THEN LET o == open_call(env, t, waker, n)
              IN  IF o.timer.active
                  THEN poll([task EXCEPT !.timer = o.timer,
                                         !.result = o.result],
                            ws, t, waker, n, o.env)
                  ELSE poll([task EXCEPT !.opens = @ - 1, !.result = o.result],
                            ws, t, waker, n, o.env)
         ELSE [ready |-> TRUE, task |-> task, waits |-> ws, regs |-> n,
               env |-> env]
    ELSE LET r == poll_next(task.timer, ws, t, waker, n + 1)
             m == IF r.registered THEN n + 1 ELSE n
         IN  IF r.ready
             THEN IF task.durs # <<>>
                  THEN poll([task EXCEPT !.durs = Tail(@), !.timer = NoTimer],
                            r.waits, t, waker, m, env)
                  ELSE poll([task EXCEPT !.opens = @ - 1, !.timer = NoTimer],
                            r.waits, t, waker, m,
                            [env EXCEPT !.opened =
                                Returned(@, waker, now(t), m, env.poll_no)])
             ELSE [ready |-> FALSE, task |-> [task EXCEPT !.timer = r.timer],
                   waits |-> r.waits, regs |-> m, env |-> env]

(***************************************************************************)
(* Executor (DeterministicExecutor)                                        *)
(***************************************************************************)
\* ArrayQueue::new(100)
QueueCap == 100

\* a Ready arm that forgets tasks.remove
Remove_keeping(f, k) == f

Remove(f, k) == [x \in DOMAIN f \ {k} |-> f[x]]

push_front(queue, task_id) ==
    IF Len(queue) >= QueueCap THEN [ok |-> FALSE, queue |-> queue]
    ELSE [ok |-> TRUE, queue |-> <<task_id>> \o queue]

push_dropping(queue, task_id) ==
    IF Len(queue) >= QueueCap THEN [ok |-> TRUE, queue |-> queue]
    ELSE [ok |-> TRUE, queue |-> Append(queue, task_id)]

\* ArrayQueue::push: Err when the queue is full (expect() then panics)
push(queue, task_id) ==
    IF Len(queue) >= QueueCap THEN [ok |-> FALSE, queue |-> queue]
    ELSE [ok |-> TRUE, queue |-> Append(queue, task_id)]

wake_task_twice(queue, task_id) ==
    LET once == push(queue, task_id)
    IN  IF once.ok THEN push(once.queue, task_id) ELSE once

\* TaskWaker::wake_task, called by Wake::wake and by Wake::wake_by_ref:
\* task_queue.push(self.task_id).expect("task_queue full")
wake_task(queue, task_id) == push(queue, task_id)

\* a loop body that creates the waker before it looks the task up
waker_entry_before_lookup(ts, cache, task_id) == cache \cup {task_id}

\* waker_cache.entry(task_id).or_insert_with(..), reached only when
\* tasks.get_mut(&task_id) has found the task
waker_entry(ts, cache, task_id) ==
    IF task_id \in DOMAIN ts THEN cache \cup {task_id} ELSE cache

\* a loop of run() that never takes its exit
quiescent_never(ts, queue, cache) == FALSE

quiescent_queue_only(ts, queue, cache) == queue = <<>>

\* the exit test of run(): waker_cache, task_queue and tasks are all empty
quiescent(ts, queue, cache) ==
    cache = {} /\ queue = <<>> /\ DOMAIN ts = {}

advance_outcome_looping(some, pushed) == "drain"

\* the match on advance_simulation() in run(): None => unreachable!(..) panics;
\* Some(_) with the waker's push refused => expect(..) panics; else loop again
advance_outcome(some, pushed) ==
    IF some /\ pushed THEN "drain" ELSE "panic"

\* observer: the timers created so far or still to be created by the tasks
RECURSIVE Unregistered(_, _)
Unregistered(ts, ids) ==
    IF ids = {} THEN 0
    ELSE LET k == CHOOSE x \in ids : TRUE
         IN  Len(ts[k].durs) - (IF ts[k].timer.already_registered THEN 1 ELSE 0)
             + Unregistered(ts, ids \ {k})

TimersSpawned == regs + Unregistered(tasks, DOMAIN tasks)

\* observer: a task polled to Ready
Completion(task_id, task, at, peers) ==
    [id |-> task_id, prog |-> task.prog, reactor |-> task.reactor,
     reg_at |-> task.reg_at, at |-> at, peers |-> peers]

\* the body of spawn: tasks.insert(task.id, task) panics when it replaced an
\* entry, then task_queue.push(task_id).expect(..) panics when the queue is
\* full
spawn_outcome(ts, queue, task_id, task) ==
    IF task_id \in DOMAIN ts
    THEN [tasks |-> [ts EXCEPT ![task_id] = task], queue |-> queue,
          panic |-> TRUE]
    ELSE LET q == push(queue, task_id)
         IN  [tasks |-> (task_id :> task) @@ ts, queue |-> q.queue,
              panic |-> ~q.ok]

\* executor.spawn(task): Task::new gave the task the next TaskId; it goes
\* into the task table and its id to the tail of the ready queue.
spawn(task) ==
    /\ pc \in {"idle", "done"}
    /\ LET r == spawn_outcome(tasks, task_queue, next_id, task)
       IN  /\ next_id' = next_id + 1
           /\ tasks' = r.tasks
           /\ task_queue' = r.queue
           /\ pc' = IF r.panic THEN "panic" ELSE "idle"
    /\ adv' = ROp("spawn", FALSE, 0, next_id, 0, -1)
    /\ UNCHANGED <<waker_cache, polled, completed, waits, time, regs, bvars,
                   uvars, pvars, lvars>>

\* spawn of a task that awaits timers holding the given reactor
SpawnOn(durs, reactor) ==
    /\ next_id < MaxTasks
    /\ TimersSpawned + Len(durs) <= MaxTimers
    /\ spawn(TaskOn(durs, reactor))

\* spawn of a task whose timers hold the reactor that run() advances
Spawn(durs) == SpawnOn(durs, "static")

\* run() is called: the loop starts with run_ready_tasks
Run ==
    /\ pc \in {"idle", "done"}
    /\ pc' = "drain"
    /\ adv' = ROp("run", FALSE, 0, 0, 0, -1)
    /\ UNCHANGED <<tasks, task_queue, waker_cache, next_id, polled, completed,
                   waits, time, regs, bvars, uvars, pvars, lvars>>

\* one iteration of the while-let loop of run_ready_tasks; inp is what the
\* RNGs and the host answer to the task during this poll
PollWith(inp) ==
    /\ pc = "drain"
    /\ task_queue # <<>>
    /\ LET task_id == Head(task_queue)
       IN  IF task_id \notin DOMAIN tasks
           THEN \* task no longer exists
                /\ task_queue' = Tail(task_queue)
                /\ adv' = ROp("skip", FALSE, 0, task_id, 0, -1)
                /\ waker_cache' = waker_entry(tasks, waker_cache, task_id)
                /\ UNCHANGED <<tasks, polled, completed, waits,
                               regs, user_waits, random, buggified_lines,
                               pvars>>
           ELSE LET own == tasks[task_id].reactor
                    ws == IF own = "static" THEN waits ELSE user_waits
                    t == IF own = "static" THEN time ELSE user_time
                    task == [tasks[task_id] EXCEPT
                               !.reg_at = IF @ < 0 THEN now(t) ELSE @]
                    r == poll(task, ws, t, task_id, regs,
                              Env(random, buggified_lines, platform_random,
                                  opened, polled + 1, inp))
                IN  /\ task_queue' = Tail(task_queue)
                    /\ waits' = IF own = "static" THEN r.waits ELSE waits
                    /\ user_waits' = IF own = "static" THEN user_waits
                                     ELSE r.waits
                    /\ regs' = r.regs
                    /\ polled' = polled + 1
                    /\ random' = r.env.random
                    /\ buggified_lines' = r.env.buggified_lines
                    /\ platform_random' = r.env.platform_random
                    /\ opened' = r.env.opened
                    /\ adv' = ROp("poll", r.ready, 0, task_id, 0, -1)
                    /\ IF r.ready
                       THEN /\ tasks' = Remove(tasks, task_id)
                            /\ waker_cache' =
                                 waker_entry(tasks, waker_cache, task_id)
                                    \ {task_id}
                            /\ completed' =
                                 Append(completed,
                                        Completion(task_id, task, now(t),
                                                   DOMAIN tasks \ {task_id}))
                       ELSE /\ tasks' = [tasks EXCEPT ![task_id] = r.task]
                            /\ waker_cache' =
                                 waker_entry(tasks, waker_cache, task_id)
                            /\ UNCHANGED completed
    /\ UNCHANGED <<pc, next_id, time, user_time, impl, bq, hist,
                   platform_reactor, lvars>>

\* a poll of a task that awaits timers only: nothing is drawn
PollNext == PollWith(NoInput)

\* the rest of an iteration of the loop of run(), once run_ready_tasks has
\* drained the queue: return, or advance the simulation of the static REACTOR.
RunLoopTail ==
    /\ pc = "drain"
    /\ task_queue = <<>>
    /\ IF quiescent(tasks, task_queue, waker_cache)
       THEN /\ pc' = "done"
            /\ adv' = ROp("return", FALSE, 0, 0, 0, -1)
            /\ completed' = <<>>
            /\ UNCHANGED <<task_queue, waits, time>>
       ELSE LET r == advance_simulation(waits, time)
                w == wake_task(task_queue, r.waker)
            IN  /\ waits' = r.waits
                /\ time' = r.time
                /\ adv' = ROp("advance", r.some, r.duration, r.waker, r.seq,
                              PrevOf(adv))
                /\ task_queue' = IF r.some THEN w.queue ELSE task_queue
                /\ pc' = advance_outcome(r.some, w.ok)
                /\ UNCHANGED completed
    /\ UNCHANGED <<tasks, waker_cache, next_id, polled, regs, bvars, uvars,
                   pvars, lvars>>

Init ==
    /\ BuggifyIdle
    /\ ReactorInit
    /\ ExecutorInit
    /\ UserReactorInit

\* the simulation crate's composition: every timer registers with the static
\* REACTOR
Next ==
    \/ \E durs \in Programs : Spawn(durs)
    \/ Run
    \/ PollNext
    \/ RunLoopTail

Spec == Init /\ [][Next]_vars

\* run() is sequential code: once called, its loop keeps taking steps.
SpecLive == Spec /\ WF_vars(PollNext) /\ WF_vars(RunLoopTail)

\* circus-simulation's composition: each task's timers hold the reactor that
\* the user program passed to wait_with_reactor
NextSim ==
    \/ \E durs \in Programs : \E reactor \in Reactors : SpawnOn(durs, reactor)
    \/ Run
    \/ PollNext
    \/ RunLoopTail

SpecSim == Init /\ [][NextSim]_vars

SpecSimLive == SpecSim /\ WF_vars(PollNext) /\ WF_vars(RunLoopTail)

(***************************************************************************)
(* The ready queue: spawns up to its capacity, and wakers invoked by an    *)
(* advance of the user's reactor made outside the loop of run()            *)
(***************************************************************************)
\* the first task spawned awaits one timer
SpawnSleeper(duration, reactor) ==
    /\ next_id = 0
    /\ spawn(TaskOn(<<duration>>, reactor))

\* executor.spawn(Task::new(async {})): a task that is Ready at its first poll
SpawnIdle ==
    /\ next_id < MaxSpawns
    /\ spawn(TaskOn(<<>>, "static"))

\* run() called while few tasks have been spawned
RunSmall ==
    /\ next_id <= MaxTasks
    /\ Run

\* reactor.advance_simulation() called on the DeterministicReactor::default()
\* instance by its owner, which is not the loop of run(): the entry fired
\* holds a clone of a TaskWaker, whose wake() pushes onto the executor's queue
UserAdvance ==
    /\ pc # "panic"
    /\ LET r == advance_simulation(user_waits, user_time)
           w == wake_task(task_queue, r.waker)
       IN  /\ user_waits' = r.waits
           /\ user_time' = r.time
           /\ adv' = ROp("advance_user", r.some, r.duration, r.waker, r.seq, -1)
           /\ task_queue' = IF r.some THEN w.queue ELSE task_queue
           /\ pc' = IF r.some /\ ~w.ok THEN "panic" ELSE pc
    /\ UNCHANGED <<tasks, waker_cache, next_id, polled, completed, waits,
                   time, regs, bvars, pvars, lvars>>

NextQueue ==
    \/ \E d \in Durations : \E reactor \in Reactors : SpawnSleeper(d, reactor)
    \/ SpawnIdle
    \/ RunSmall
    \/ PollNext
    \/ RunLoopTail
    \/ UserAdvance

SpecQueue == Init /\ [][NextQueue]_vars

(***************************************************************************)
(* run() over tasks awaiting timers, after any number of spawns            *)
(***************************************************************************)
\* the user program spawns tasks (up to and past the capacity of the ready
\* queue) and calls run(); nothing but run() advances a reactor
NextDrain ==
    \/ \E durs \in Programs : Spawn(durs)
    \/ SpawnIdle
    \/ RunSmall
    \/ PollNext
    \/ RunLoopTail

SpecDrain == Init /\ [][NextDrain]_vars

(***************************************************************************)
(* The executor running tasks that open files on one SimulationPlatform    *)
(***************************************************************************)
\* observer: the calls of open made so far or still to be made by the tasks
RECURSIVE OpensLeft(_, _)
OpensLeft(ts, ids) ==
    IF ids = {} THEN 0
    ELSE LET k == CHOOSE x \in ids : TRUE
         IN  ts[k].opens + OpensLeft(ts, ids \ {k})

OpensSpawned ==
    Cardinality({k \in DOMAIN opened : opened[k].returned_at >= 0})
        + OpensLeft(tasks, DOMAIN tasks)

\* spawn of a task that calls open n times on (a clone of) the platform
SpawnOpen(n) ==
    /\ next_id < MaxTasks
    /\ OpensSpawned + n <= MaxOpens
    /\ spawn(OpenTask(n, platform_reactor))

\* SimulationPlatform::new(seed, reactor): the buggifier is enabled with an
\* RNG of the seed, the platform's own RNG is a second one of the same seed
InitPlatform ==
    /\ ThreadsInit
    /\ impl = "circus_buggify"
    /\ \E seed \in Seeds :
          /\ random = Some(seed)
          /\ platform_random = Some(seed)
    /\ platform_reactor \in Reactors
    /\ buggified_lines = {}
    /\ bq = BOp("init", NoSite, 0, 0, FALSE)
    /\ hist = [s \in Sites(impl) |-> NoHist]
    /\ opened = <<>>
    /\ user_waits = <<>>
    /\ user_time = [base |-> 0, advance |-> 0]
    /\ ReactorInit
    /\ ExecutorInit

NextPlatform ==
    \/ \E n \in 1..MaxOpens : SpawnOpen(n)
    \/ Run
    \/ \E inp \in Inputs : PollWith(inp)
    \/ RunLoopTail

SpecPlatform == InitPlatform /\ [][NextPlatform]_vars

(***************************************************************************)
(* One task calling open ten times on a platform of seed 42                *)
(***************************************************************************)
\* for i in 0..10 { platform.open(..).await }
TenCalls == 10

\* The first uniform values (percent, rounded down) of
\* SmallRng::seed_from_u64(42), by draw: gen_bool(0.05) is false for the
\* draws 0..7 and true for draw 8, as the tests of circus-buggify assert.
SmallRng42 == <<15, 30, 29, 72, 53, 15, 31, 45, 1>>

\* the value the next Bernoulli draw of the buggifier's RNG sees; once the
\* call-site of open has fired no draw is taken any more
next_percent(rnd) ==
    IF rnd.pos < Len(SmallRng42) THEN SmallRng42[rnd.pos + 1] ELSE 99

\* the first latency drawn from the platform's RNG of seed 42 is 817 ms
first_latency(prnd, latency) == prnd.pos = 0 => latency = 817

SpawnTen ==
    /\ next_id = 0
    /\ spawn(OpenTask(TenCalls, platform_reactor))

\* a poll of the task: the buggifier draws from the stream of seed 42, the
\* host has the file
PollSeed42 ==
    \E inp \in [ub : {next_percent(random)}, uk : Uniform01,
                 ul : Latencies, host : {"Ok"}] :
        /\ first_latency(platform_random, inp.ul)
        /\ PollWith(inp)

InitSeed42 ==
    /\ InitPlatform
    /\ random = Some(42)

NextSeed42 ==
    \/ SpawnTen
    \/ Run
    \/ PollSeed42
    \/ RunLoopTail

SpecSeed42 == InitSeed42 /\ [][NextSeed42]_vars

(***************************************************************************)
(* Claims about the buggifier (checked under SpecBuggify)                  *)
(***************************************************************************)

\* C1: on an enabled buggifier, with no disable in between, each call-site
\* returns true at most once, also across a re-enable with a fresh RNG
\* (hist counts the trues of a call-site since the last disable).
C1_AtMostOnce == \A s \in DOMAIN hist : hist[s].trues <= 1

\* C1 witness: a query with probability 1.0 at a call-site that already fired
\* returned false on an enabled buggifier.
C1_Witness ==
    /\ bq.op = "query" /\ bq.p = 100 /\ ~bq.result
    /\ random.some
    /\ hist[bq.site].trues = 1

\* C2: while the buggifier is disabled every query returns false, for every
\* probability, and writes neither the fired set nor the RNG.
C2_DisabledQueryIsNoop ==
    [][(bq'.op = "query" /\ ~random.some)
          => (/\ ~bq'.result
              /\ random' = random
              /\ buggified_lines' = buggified_lines)]_vars

\* C2 witness: a query with probability 1.0 was answered false by a disabled
\* buggifier.
C2_Witness == bq.op = "query" /\ bq.p = 100 /\ ~bq.result /\ ~random.some

\* C3 (as claimed): whenever the buggifier is disabled its fired set is empty,
\* in every buggifier of the repository.
C3_DisabledImpliesEmpty == ~random.some => buggified_lines = {}

\* C4: enable(rng) installs the given RNG and leaves the fired set unchanged,
\* and a query whose key is in the fired set returns false.
C4_EnableKeepsFired ==
    [][/\ bq'.op = "enable"
          => (/\ buggified_lines' = buggified_lines
              /\ random' = Some(bq'.seed))
       /\ (bq'.op = "query" /\ line_of(impl, bq'.site) \in buggified_lines)
          => ~bq'.result]_vars

\* C4 witness: enable was called on an already enabled buggifier that had a
\* fired call-site, and the fired set is still there.
C4_Witness == bq.op = "enable" /\ bq.result /\ buggified_lines # {}

\* C5 (as claimed): call-sites are tracked independently -- when a query with
\* probability 1.0 on an enabled buggifier returns false, it is because this
\* very call-site fired before, not another one.
C5_IndependentSites ==
    (bq.op = "query" /\ bq.p = 100 /\ ~bq.result /\ random.some
        /\ impl # "simulation")
    => hist[bq.site].trues = 1

\* C6 (as claimed): a call-site whose first evaluation in the run (on the
\* enabled buggifier) was false never evaluates to true later in the run.
C6_FirstEvaluationDecides ==
    \A s \in DOMAIN hist : hist[s].first = "false" => hist[s].trues = 0

C8_PickMinimum ==
    [][adv'.op = "advance"
          => /\ waits # <<>>
                => /\ adv'.some
                   /\ adv'.duration =
                        Min({waits[i].duration : i \in DOMAIN waits})
                   /\ adv'.prev <= adv'.duration
             /\ waits = <<>> => ~adv'.some]_vars

\* C8 witness: two advances in a row returned increasing durations, and the
\* second one fired the entry that was registered first.
C8_Witness ==
    /\ adv.op = "advance" /\ adv.some
    /\ adv.prev >= 0 /\ adv.prev < adv.duration
    /\ adv.seq = 1

\* C9: among entries of equal duration the one registered first is fired
\* first, under any interleaving of register_wait and advance_simulation.
C9_TiesInRegistrationOrder ==
    [][(adv'.op = "advance" /\ waits # <<>>)
          => \A i \in DOMAIN waits :
                waits[i].duration = adv'.duration => adv'.seq <= waits[i].seq]_vars

\* C9 witness: an advance fired an entry while a later registered entry of the
\* same duration stays behind, after an earlier advance had already sorted.
C9_Witness ==
    /\ adv.op = "advance" /\ adv.some /\ adv.prev >= 0
    /\ \E i \in DOMAIN waits :
          waits[i].duration = adv.duration /\ waits[i].seq > adv.seq + 1

(***************************************************************************)
(* Claims about the executor (checked under SpecLive)                      *)
(***************************************************************************)

Reachable(task_id) ==
    \E i \in DOMAIN waits :
        /\ waits[i].waker = task_id
        /\ waits[i].duration = tasks[task_id].timer.duration

Queued(task_id) == \E i \in DOMAIN task_queue : task_queue[i] = task_id

\* C11: when a drain ends with tasks left, the ready queue empty and the
\* reactor that run() advances empty, the next step of run() is the panic: it
\* is taken (run() does not loop on), it does not return, and nothing follows.
C11_DeadlockPanics ==
    /\ [][(pc = "drain" /\ task_queue = <<>> /\ DOMAIN tasks # {}
              /\ waits = <<>>)
            => (pc' = "panic" /\ tasks' = tasks)]_vars
    /\ [][pc = "panic" => pc' = "panic"]_vars
    /\ (pc = "drain" /\ task_queue = <<>> /\ DOMAIN tasks # {} /\ waits = <<>>)
          ~> (pc = "panic")

\* C11 witness: run() has panicked on a None from advance_simulation while a
\* task was still pending.
C11_Witness ==
    /\ pc = "panic"
    /\ adv.op = "advance" /\ ~adv.some
    /\ DOMAIN tasks # {} /\ task_queue = <<>> /\ waits = <<>>

\* C19 (as claimed): every wait registered by a timer of a task the executor
\* polls is in the entry list that run() advances -- a pending task whose
\* timer has registered either has its entry there or has just been woken.
C19_OneReactor ==
    \A task_id \in DOMAIN tasks :
        tasks[task_id].timer.already_registered
            => (Reachable(task_id) \/ Queued(task_id))

\* C12: during a run() the virtual clock never goes back: no step of the
\* executor, of a task or of the reactor decreases now(), on the clock of the
\* reactor that run() advances and on the clock the tasks' timers read.
C12_NowNeverDecreases ==
    [][/\ now(time') >= now(time)
       /\ now(user_time') >= now(user_time)]_vars

\* C12 witness: within one run() two tasks have observed the clock at their
\* completion, the second one later than the first.
C12_Witness ==
    /\ pc = "drain"
    /\ Len(completed) = 2
    /\ 0 < completed[1].at /\ completed[1].at < completed[2].at
    /\ completed[2].id \in completed[1].peers
    /\ now(time) = completed[2].at

\* C13 (as claimed): every reactor advance performed during run() leaves now()
\* strictly greater than before, whatever durations were registered.
C13_StrictlyMonotonic ==
    [][(adv'.op = "advance" /\ adv'.some) => now(time') > now(time)]_vars

\* C13 (amended): every reactor advance performed during run() adds the fired
\* entry's duration to now(); now() is strictly greater after the advance
\* exactly when that duration is not zero, and unchanged when it is zero.
C13_MonotonicByDuration ==
    [][(adv'.op = "advance" /\ adv'.some)
          => /\ now(time') = now(time) + adv'.duration
             /\ (now(time') > now(time) <=> adv'.duration > 0)]_vars

\* C13 witness: run() advanced the reactor by a zero duration while a task
\* was pending on a longer timer, and now() did not move.
C13_Witness ==
    /\ pc = "drain"
    /\ adv.op = "advance" /\ adv.some /\ adv.duration = 0
    /\ now(time) = 0
    /\ \E task_id \in DOMAIN tasks : tasks[task_id].timer.duration > 0

(***************************************************************************)
(* Claims about the clock alone (SpecClock)                                *)
(***************************************************************************)

\* C14 (as claimed): under any sequence of advance and reset operations,
\* now() after an operation is never before now() before it.
C14_MonotonicUnderReset ==
    [][adv'.op \in {"clock_advance", "clock_reset"}
          => now(time') >= now(time)]_vars

\* C14 (amended): now() is non-decreasing under any sequence of advance
\* operations, which leave base alone; a reset sets now() to the wall instant
\* it reads and so decreases now() exactly when the virtual time accumulated
\* exceeds the wall time elapsed since base.
C14_MonotonicUnderAdvance ==
    [][/\ adv'.op = "clock_advance"
          => (now(time') >= now(time) /\ time'.base = time.base)
       /\ adv'.op = "clock_reset"
          => /\ now(time') = time'.base /\ time'.base >= time.base
             /\ (now(time') < now(time)
                   <=> time.advance > time'.base - time.base)]_vars

\* C14 witness: a reset after advances has set now() back.
C14_Witness ==
    /\ adv.op = "clock_reset"
    /\ now(time) < adv.prev
    /\ time.base > 0

(***************************************************************************)
(* Claims about the order and the instants of completion (SpecSim)         *)
(***************************************************************************)

\* the tasks completed so far in the current run() that awaited one timer
OneTimer(k) == Len(completed[k].prog) = 1

RECURSIVE SumFired(_)
SumFired(k) == IF k = 0 THEN 0 ELSE completed[k].prog[1] + SumFired(k - 1)

\* C16: of two tasks of one run() that each await one timer, with different
\* durations, the one with the smaller duration completes first, whatever
\* the order of their spawns.
C16_AscendingCompletion ==
    \A i, j \in DOMAIN completed :
        (/\ i < j
         /\ OneTimer(i) /\ OneTimer(j)
         /\ completed[j].id \in completed[i].peers
         /\ completed[i].prog[1] # completed[j].prog[1])
        => completed[i].prog[1] < completed[j].prog[1]

\* C16 witness: the task spawned first awaited the longer timer and completed
\* second.
C16_Witness ==
    /\ Len(completed) = 2
    /\ OneTimer(1) /\ OneTimer(2)
    /\ completed[1].id > completed[2].id
    /\ completed[1].prog[1] > 0
    /\ completed[1].prog[1] < completed[2].prog[1]

\* C17: when the tasks of a run(), the completed ones and the ones still
\* pending, each await one timer and all registered at the same virtual
\* instant, a task completes at that instant plus the sum of
\* the durations fired up to and including its own -- the durations are
\* never rebased against the time that has passed.
C17_SumOfFiredDurations ==
    (/\ \A k \in DOMAIN completed :
            /\ OneTimer(k)
            /\ completed[k].reactor = "static"
            /\ completed[k].reg_at = completed[1].reg_at
     /\ \A task_id \in DOMAIN tasks :
            /\ Len(tasks[task_id].prog) = 1
            /\ tasks[task_id].reactor = "static")
    => \A k \in DOMAIN completed :
          completed[k].at = completed[k].reg_at + SumFired(k)

\* C17 witness: durations 1 and 2 registered at the same instant completed
\* at +1 and +3, the second one after its own deadline of +2.
C17_Witness ==
    /\ Len(completed) = 2
    /\ OneTimer(1) /\ OneTimer(2)
    /\ completed[1].reg_at = completed[2].reg_at
    /\ completed[1].prog[1] = 1 /\ completed[2].prog[1] = 2
    /\ completed[1].at = completed[1].reg_at + 1
    /\ completed[2].at = completed[2].reg_at + 3

(***************************************************************************)
(* Claims about the timer (SpecSim)                                        *)
(***************************************************************************)

RECURSIVE Sum(_)
Sum(durs) == IF durs = <<>> THEN 0 ELSE Head(durs) + Sum(Tail(durs))

\* the timer the task awaits is not due yet on the clock its timers read:
\* now() < t + d, for the instant t of its creation and its duration d
NotDueAt(task, static_time, other_time) ==
    /\ task.timer.active
    /\ now(IF task.reactor = "static" THEN static_time ELSE other_time)
          < task.timer.created_at + task.timer.duration

NotDue(task) == NotDueAt(task, time, user_time)

\* C18: a timer never completes early.  A poll of a task whose timer is not
\* due leaves the task pending on that same timer, however often it is
\* polled; a task that a poll leaves pending awaits a timer that is not due
\* (a due timer is Ready); and a task polled to Ready has seen at least the
\* durations of all its timers pass since its first poll.
C18_TimerNeverEarly ==
    /\ [][adv'.op = "poll"
            => LET task_id == adv'.waker
               IN  /\ NotDue(tasks[task_id])
                        => /\ task_id \in DOMAIN tasks'
                           /\ tasks'[task_id].timer = tasks[task_id].timer
                   /\ task_id \in DOMAIN tasks'
                        => /\ ~adv'.some
                           /\ tasks'[task_id].timer.already_registered
                           /\ NotDueAt(tasks'[task_id], time', user_time')]_vars
    /\ [](\A k \in DOMAIN completed :
             completed[k].at >= completed[k].reg_at + Sum(completed[k].prog))

\* C18 witness: a task woken by the stale entry of its first timer (duration
\* zero) was polled again before its second timer was due and stayed pending.
C18_Witness ==
    /\ pc = "drain"
    /\ adv.op = "poll" /\ ~adv.some
    /\ polled = 2 /\ regs = 2 /\ next_id = 1
    /\ Len(waits) = 1
    /\ adv.waker \in DOMAIN tasks
    /\ tasks[adv.waker].prog[1] = 0
    /\ NotDue(tasks[adv.waker])

(***************************************************************************)
(* Claims about the simulated platform (SpecPlatform)                      *)
(***************************************************************************)

ErrorKinds == {"UnexpectedEof", "PermissionDenied", "NotFound"}

\* C20: when buggify fires inside open, the call returns an error at once:
\* it returns in the poll that called it, at the same virtual instant, with
\* no wait registered and no timer created; and a poll in which the only call
\* of open is fault-injected changes neither reactor nor clock and ends with
\* the task Ready instead of suspended.
C20_FaultReturnsAtOnce ==
    /\ [](\A k \in DOMAIN opened :
             opened[k].fault
                => /\ opened[k].result \in ErrorKinds
                   /\ opened[k].latency = 0
                   /\ opened[k].returned_at = opened[k].called_at
                   /\ opened[k].regs_at_return = opened[k].regs_at_call
                   /\ opened[k].poll_at_return = opened[k].poll_at_call)
    /\ [][(/\ adv'.op = "poll"
           /\ Len(opened') = Len(opened) + 1
           /\ opened'[Len(opened')].fault)
            => /\ adv'.some
               /\ waits' = waits /\ user_waits' = user_waits
               /\ time' = time /\ user_time' = user_time
               /\ regs' = regs]_vars

\* C20 witness: the only open of a task was fault-injected; the task was
\* polled once and completed, nothing was registered and the clock is where
\* it was.
C20_Witness ==
    /\ Len(opened) = 1 /\ opened[1].fault
    /\ adv.op = "poll" /\ adv.some
    /\ polled = 1 /\ regs = 0
    /\ waits = <<>> /\ user_waits = <<>>
    /\ now(time) = 0 /\ now(user_time) = 0
    /\ buggified_lines # {}

\* the calls of open that a poll step has added to the log and that were not
\* fault-injected
NewPlainOpens(before, after) ==
    {k \in (Len(before) + 1)..Len(after) : ~after[k].fault}

\* another call's timer entry fired between the call k and its return
FiredBetween(k) ==
    \E j \in DOMAIN opened :
        /\ j # k /\ ~opened[j].fault
        /\ opened[j].poll_at_return > opened[k].poll_at_call
        /\ opened[j].poll_at_return < opened[k].poll_at_return

\* C21: an open that is not fault-injected suspends on exactly one timer whose
\* duration d is in [300 ms, 2000 ms): the poll that makes the call registers
\* one wait of d for the task and leaves the task pending on that timer; the
\* call returns in a later poll, at a virtual instant of at least the instant
\* of the call plus d, and of exactly that when no other call's entry fired
\* in between.
C21_LatencyTimer ==
    /\ [](\A k \in DOMAIN opened :
             ~opened[k].fault
                => /\ opened[k].latency >= 300 /\ opened[k].latency < 2000
                   /\ opened[k].result \in HostResults
                   /\ opened[k].returned_at < 0
                        => /\ opened[k].task \in DOMAIN tasks
                           /\ tasks[opened[k].task].timer.active
                           /\ tasks[opened[k].task].timer.duration
                                 = opened[k].latency
                   /\ opened[k].returned_at >= 0
                        => /\ opened[k].poll_at_return > opened[k].poll_at_call
                           /\ opened[k].regs_at_return > opened[k].regs_at_call
                           /\ opened[k].returned_at
                                 >= opened[k].called_at + opened[k].latency
                           /\ ~FiredBetween(k)
                                 => opened[k].returned_at
                                      = opened[k].called_at + opened[k].latency)
    /\ [][adv'.op = "poll"
            => LET new == NewPlainOpens(opened, opened')
                   ws == IF platform_reactor = "static" THEN waits
                         ELSE user_waits
                   ws2 == IF platform_reactor = "static" THEN waits'
                          ELSE user_waits'
               IN  /\ Cardinality(new) <= 1
                   /\ regs' = regs + Cardinality(new)
                   /\ \A k \in new :
                         /\ ~adv'.some
                         /\ ws2 = Append(ws, ReactorEntry(opened'[k].latency,
                                                          opened'[k].task,
                                                          regs + 1))]_vars

\* C21 witness: the first open of a lone task drew a latency of 817 ms, the
\* task suspended, the entry fired and the call returned Ok at +817 ms.
C21_Witness ==
    /\ next_id = 1
    /\ Len(opened) >= 1
    /\ ~opened[1].fault /\ opened[1].latency = 817
    /\ opened[1].result = "Ok"
    /\ opened[1].called_at = 0 /\ opened[1].returned_at = 817
    /\ opened[1].poll_at_call = 1 /\ opened[1].poll_at_return = 2
    /\ now(time) = 817

(***************************************************************************)
(* Claims about the platform of seed 42 (SpecSeed42)                       *)
(***************************************************************************)

C23_ErrorKindByDraw ==
    /\ [](\A k \in DOMAIN opened :
             opened[k].fault
                => /\ opened[k].u \in Uniform01
                   /\ opened[k].result # "Ok"
                   /\ opened[k].u < 10
                        => opened[k].result = "UnexpectedEof"
                   /\ (opened[k].u >= 10 /\ opened[k].u < 20)
                        => opened[k].result = "PermissionDenied"
                   /\ opened[k].u >= 20
                        => opened[k].result = "NotFound")
    /\ [][adv'.op = "poll"
            => platform_random'.pos
                 = platform_random.pos + Len(opened') - Len(opened)]_vars

\* C23 witness: a fault-injected open drew exactly 0.1 and failed with
\* permission denied.
C23_Witness ==
    \E k \in DOMAIN opened :
        /\ opened[k].fault
        /\ opened[k].u = 10
        /\ opened[k].result = "PermissionDenied"
        /\ platform_random.pos = Len(opened)

(***************************************************************************)
(* Claims about the ready queue (SpecQueue)                                *)
(***************************************************************************)

\* C24: spawn is fatal when the id of the task is already in the task table
\* and when the ready queue is full -- with nothing polled or woken so far,
\* the 101st spawn (id 100) is the first that panics; otherwise spawn adds
\* the task to the table, leaves the other tasks alone and appends the id at
\* the tail of the ready queue.  Ids handed to spawn are fresh, and nothing
\* runs after a panic.
C24_SpawnFatalOrEnqueues ==
    /\ [](\A task_id \in DOMAIN tasks : task_id < next_id)
    /\ [][pc # "panic"]_vars
    /\ [][adv'.op = "spawn"
            => LET task_id == adv'.waker
               IN  /\ task_id = next_id
                   /\ IF task_id \in DOMAIN tasks \/ Len(task_queue) >= 100
                      THEN pc' = "panic"
                      ELSE /\ pc' = "idle"
                           /\ DOMAIN tasks' = DOMAIN tasks \cup {task_id}
                           /\ \A k \in DOMAIN tasks : tasks'[k] = tasks[k]
                           /\ task_queue' = Append(task_queue, task_id)
                   /\ (polled = 0 /\ Len(task_queue) = next_id)
                         => (pc' = "panic" <=> task_id = 100)]_vars

\* C24 witness: 101 tasks were spawned and none polled; the queue holds the
\* first 100 ids and the last spawn panicked.
C24_Witness ==
    /\ pc = "panic" /\ adv.op = "spawn" /\ adv.waker = 100
    /\ polled = 0
    /\ Len(task_queue) = 100
    /\ task_queue[1] = 0 /\ task_queue[100] = 99
    /\ Cardinality(DOMAIN tasks) = 101

\* a step in which a reactor fired an entry and so invoked its waker: the
\* advance of the loop of run(), or the advance made by the owner of the
\* user's reactor
Woken == adv'.op \in {"advance", "advance_user"} /\ adv'.some

\* C25: invoking the waker of a task appends the TaskId of that task, once,
\* to the tail of the ready queue and changes nothing else of the executor;
\* when the queue is full the wake is fatal.  An advance that fires nothing
\* wakes nothing.
C25_WakeEnqueuesOnce ==
    /\ [][Woken
            => /\ IF Len(task_queue) < 100
                  THEN /\ task_queue' = Append(task_queue, adv'.waker)
                       /\ pc' = pc
                  ELSE pc' = "panic"
               /\ adv'.waker < next_id
               /\ tasks' = tasks
               /\ waker_cache' = waker_cache
               /\ next_id' = next_id]_vars
    /\ [][(adv'.op \in {"advance", "advance_user"} /\ ~adv'.some)
            => task_queue' = task_queue]_vars

\* C25 witness: the waker of task 0, left in the user's reactor, was invoked
\* while the queue held 100 ids, and the wake panicked.
C25_Witness ==
    /\ pc = "panic"
    /\ adv.op = "advance_user" /\ adv.some /\ adv.waker = 0
    /\ Len(task_queue) = 100
    /\ \A k \in DOMAIN task_queue : task_queue[k] # 0

\* no entry of a reactor has fired yet, so no waker has been invoked
NothingWoken == regs = Len(waits) + Len(user_waits)

\* C26: the ready queue is served first in, first out.  An iteration of the
\* drain takes the id at the head of the queue, and every other step leaves
\* the queue alone or appends one id at its tail, so an id enqueued during a
\* pass is polled after all the ids enqueued before it; as long as no waker
\* has been invoked the queue holds the ids in the order of their spawns.
C26_FifoDrain ==
    /\ [][adv'.op \in {"poll", "skip"}
            => /\ task_queue # <<>>
               /\ adv'.waker = Head(task_queue)
               /\ task_queue' = Tail(task_queue)]_vars
    /\ [][adv'.op \notin {"poll", "skip"}
            => \/ task_queue' = task_queue
               \/ \E task_id \in 0..next_id :
                     task_queue' = Append(task_queue, task_id)]_vars
    /\ [](NothingWoken
            => \A i, j \in DOMAIN task_queue :
                  i < j => task_queue[i] < task_queue[j])

\* C26 witness: during the first pass task 0 was polled and left pending, its
\* waker was invoked while task 1 was still queued, and the id 0 went behind
\* the id 1.
C26_Witness ==
    /\ pc = "drain" /\ polled = 1
    /\ adv.op = "advance_user" /\ adv.some /\ adv.waker = 0
    /\ task_queue = <<1, 0>>
    /\ 0 \in DOMAIN tasks /\ 1 \in DOMAIN tasks

(***************************************************************************)
(* Claims about one advance_simulation call (checked under SpecReactor)    *)
(***************************************************************************)

Entries(ws) == {ws[i] : i \in DOMAIN ws}

\* C27: an advance_simulation call on a non-empty reactor removes exactly one
\* entry, adds exactly that entry's duration to the clock and fires that
\* entry's waker; every other entry stays in the reactor with the duration
\* and the waker it was registered with (no rebasing against elapsed time).
C27_AdvanceRemovesOne ==
    [][(adv'.op = "advance" /\ waits # <<>>)
          => \E i \in DOMAIN waits :
                /\ adv'.some
                /\ adv'.duration = waits[i].duration
                /\ adv'.waker = waits[i].waker
                /\ adv'.seq = waits[i].seq
                /\ now(time') = now(time) + waits[i].duration
                /\ Len(waits') = Len(waits) - 1
                /\ Entries(waits') = Entries(waits) \ {waits[i]}]_vars

\* C27 witness: an advance fired an entry of duration 1 after time had
\* already passed, and an entry tied with it and a longer one stay behind
\* with their registered durations.
C27_Witness ==
    /\ adv.op = "advance" /\ adv.some /\ adv.duration = 1 /\ adv.prev >= 0
    /\ Len(waits) = 2
    /\ waits[1].duration = 1 /\ waits[2].duration = 2
    /\ now(time) > 1

\* C28: advance_simulation on an empty reactor returns None, leaves the clock
\* and the empty entry list unchanged and fires no waker; an advance returns
\* Some exactly when an entry is held, each Some takes one entry away and each
\* registration adds one, so n registrations are answered by exactly n Some
\* and then None.
C28_NoneWhenEmpty ==
    [][/\ adv'.op = "advance"
          => /\ adv'.some <=> waits # <<>>
             /\ adv'.some => Len(waits') = Len(waits) - 1
             /\ ~adv'.some
                   => /\ waits' = <<>> /\ time' = time
                      /\ adv'.waker \notin FakeWakers
             /\ regs' = regs
       /\ adv'.op = "register"
          => Len(waits') = Len(waits) + 1 /\ regs' = regs + 1]_vars

\* C28 witness: two registrations of durations 1 and 2 were answered by two
\* advances returning Some, and the advance right after them returned None.
C28_Witness ==
    /\ adv.op = "advance" /\ ~adv.some /\ adv.prev = 2
    /\ regs = 2 /\ waits = <<>>
    /\ now(time) = 3

(***************************************************************************)
(* Claims about sequences of advance (checked under SpecClock)             *)
(***************************************************************************)

\* C29: every advance(d) adds exactly d to now() and leaves base unchanged,
\* and never subtracts; so after advance(d1), ..., advance(dn) with no reset
\* in between now() equals base + d1 + ... + dn.
C29_AdvanceAccumulates ==
    [][adv'.op = "clock_advance"
          => /\ adv'.prev = now(time)
             /\ now(time') = adv'.prev + adv'.duration
             /\ time'.advance = time.advance + adv'.duration
             /\ time'.base = time.base
             /\ time'.advance >= time.advance]_vars

\* C29 witness: on a clock never reset past its first base, an advance of 2
\* came on top of earlier advances that had summed up to 3.
C29_Witness ==
    /\ adv.op = "clock_advance" /\ adv.duration = 2 /\ adv.prev = 3
    /\ time.base = 0 /\ time.advance = 5 /\ now(time) = 5

(***************************************************************************)
(* Claims about the instants at which run() moves the clock (SpecPlatform) *)
(***************************************************************************)

\* the clock that the platform's timers read
PlatformNow(t, ut) == IF platform_reactor = "static" THEN now(t) ELSE now(ut)

\* C30: during run() the virtual clock changes only in the reactor's advance
\* step, and that step is taken only when a drain has left the ready queue
\* empty while tasks remain; spawning, polling a task (registering its wait,
\* querying buggify) leave the clock unchanged, and every call made or
\* returned in a poll is stamped with that unchanged now(), so all the tasks
\* polled between two advance steps observe the same now().
C30_ClockMovesOnlyOnAdvance ==
    [][/\ time' # time => (adv'.op = "advance" /\ adv'.some)
       /\ user_time' = user_time
       /\ adv'.op = "advance"
             => pc = "drain" /\ task_queue = <<>> /\ DOMAIN tasks # {}
       /\ adv'.op \in {"spawn", "run", "poll", "skip", "return"}
             => now(time') = now(time)
       /\ adv'.op = "poll"
             => /\ \A k \in (Len(opened) + 1)..Len(opened') :
                      opened'[k].called_at = PlatformNow(time, user_time)
                /\ \A k \in DOMAIN opened :
                      opened'[k].returned_at # opened[k].returned_at
                         => opened'[k].returned_at
                               = PlatformNow(time, user_time)]_vars

\* C30 witness: two tasks polled one after the other in the first drain pass
\* made their calls at the same now(), one of them after a query of buggify
\* that fired; the advance taken once the queue was empty then moved the
\* clock and the suspended call returned at the later instant.
C30_Witness ==
    /\ Len(opened) = 2
    /\ opened[1].task # opened[2].task
    /\ opened[1].called_at = opened[2].called_at
    /\ opened[2].poll_at_call = opened[1].poll_at_call + 1
    /\ opened[1].fault # opened[2].fault
    /\ \E k \in DOMAIN opened :
          ~opened[k].fault /\ opened[k].returned_at > opened[k].called_at
    /\ now(time) > opened[1].called_at

(***************************************************************************)
(* Claims about the registrations of a timer (checked under SpecSim)       *)
(***************************************************************************)

\* the entries a poll of the task registers: one per timer that gets its
\* first poll in this step, with the timer's duration and the task's waker,
\* numbered from the registrations made before
RECURSIVE FirstPolls(_, _, _, _)
FirstPolls(durs, k, task_id, n) ==
    IF k = 0 THEN <<>>
    ELSE <<ReactorEntry(Head(durs), task_id, n + 1)>>
            \o FirstPolls(Tail(durs), k - 1, task_id, n + 1)

\* C31: a timer registers with the reactor exactly once, on its first poll,
\* with its original duration and the waker of that poll: a poll of a task
\* appends one entry for each timer it polls for the first time and nothing
\* else, so a later poll of a timer, such as the poll after a wake-up that
\* comes before its expiry, adds no entry.
C31_RegistersOnce ==
    [][(adv'.op = "poll" /\ adv'.waker \in DOMAIN tasks)
          => LET task_id == adv'.waker
                 task == tasks[task_id]
                 own == task.reactor
                 ws == IF own = "static" THEN waits ELSE user_waits
                 ws2 == IF own = "static" THEN waits' ELSE user_waits'
                 old == IF task.timer.active THEN 1 ELSE 0
                 left == IF task_id \in DOMAIN tasks'
                         THEN Len(tasks'[task_id].durs) ELSE 0
                 pending == IF task_id \in DOMAIN tasks' THEN 1 ELSE 0
                 touched == Len(task.durs) - left + pending
                 rest == IF old = 1 THEN Tail(task.durs) ELSE task.durs
             IN  /\ task.timer.active => task.timer.already_registered
                 /\ ws2 = ws \o FirstPolls(rest, touched - old, task_id, regs)
                 /\ regs' = regs + touched - old
                 /\ (own = "static" => user_waits' = user_waits)
                 /\ (own = "user" => waits' = waits)
                 /\ (old = 1 /\ touched = 1) => (ws2 = ws /\ regs' = regs)]_vars

\* C31 witness: a task whose first timer of duration 0 left a stale entry was
\* woken by it before its second timer of duration 2 expired; the poll left
\* the task pending and the reactor with the one entry of the second timer.
C31_Witness ==
    /\ adv.op = "poll" /\ ~adv.some /\ adv.waker = 0
    /\ polled = 2 /\ regs = 2
    /\ 0 \in DOMAIN tasks
    /\ tasks[0].prog = <<0, 2>> /\ tasks[0].reactor = "static"
    /\ tasks[0].timer.already_registered
    /\ tasks[0].timer.expired_at > now(time)
    /\ waits = <<ReactorEntry(2, 0, 2)>>

(***************************************************************************)
(* Claims about the task table and the waker cache (checked under Spec)    *)
(***************************************************************************)

\* C32: when a poll returns Ready the task and its cached waker are removed
\* together (and only they), a poll that returns Pending keeps both, only a
\* task of the task table is polled, and a TaskId popped from the ready queue
\* whose task is no longer in the table is skipped: no poll, no waker-cache
\* entry, no registration.  TaskIds are not reused, so a completed task is
\* never polled again.
C32_ReadyRemovesTaskAndWaker ==
    /\ [][(pc = "drain" /\ task_queue # <<>>)
            => LET task_id == Head(task_queue)
               IN  /\ adv'.waker = task_id
                   /\ task_queue' = Tail(task_queue)
                   /\ task_id \in DOMAIN tasks
                        => /\ adv'.op = "poll" /\ polled' = polled + 1
                           /\ adv'.some
                                => /\ DOMAIN tasks' = DOMAIN tasks \ {task_id}
                                   /\ waker_cache' = waker_cache \ {task_id}
                           /\ ~adv'.some
                                => /\ DOMAIN tasks' = DOMAIN tasks
                                   /\ waker_cache' = waker_cache \cup {task_id}
                   /\ task_id \notin DOMAIN tasks
                        => /\ adv'.op = "skip" /\ polled' = polled
                           /\ tasks' = tasks /\ waker_cache' = waker_cache
                           /\ task_id \notin waker_cache'
                           /\ waits' = waits /\ regs' = regs]_vars
    /\ [](\A task_id \in DOMAIN tasks : task_id < next_id)
    /\ [][\A task_id \in DOMAIN tasks' \ DOMAIN tasks : task_id = next_id]_vars

\* C32 witness: the stale entry of a task that completed at its first poll
\* was fired while another task was pending, and the executor has skipped the
\* TaskId it enqueued.
C32_Witness ==
    /\ adv.op = "skip" /\ adv.waker = 0
    /\ DOMAIN tasks = {1} /\ waker_cache = {1}
    /\ polled = 2 /\ task_queue = <<>>

\* C33: between polls the key set of the waker cache is a subset of the key
\* set of the task table -- a waker is cached only for a task that exists and
\* leaves the cache in the step that removes its task -- so the three-part
\* exit test of run() holds exactly when the task table and the ready queue
\* are empty.
C33_CacheWithinTasks ==
    /\ [](/\ waker_cache \subseteq DOMAIN tasks
          /\ quiescent(tasks, task_queue, waker_cache)
                <=> (DOMAIN tasks = {} /\ task_queue = <<>>))
    /\ [][/\ \A task_id \in waker_cache' \ waker_cache :
                task_id \in DOMAIN tasks /\ task_id \in DOMAIN tasks'
          /\ \A task_id \in waker_cache \ waker_cache' :
                task_id \in DOMAIN tasks /\ task_id \notin DOMAIN tasks']_vars

\* C33 witness: a drain has polled one of two tasks to Pending and not yet
\* the other: the cache holds the waker of the first only.
C33_Witness ==
    /\ pc = "drain"
    /\ next_id = 2 /\ polled = 1
    /\ DOMAIN tasks = {0, 1} /\ waker_cache = {0}
    /\ task_queue = <<1>>

(***************************************************************************)
(* Claims about the length of the ready queue (checked under SpecDrain)    *)
(***************************************************************************)

\* C34: for tasks that suspend on timers only, every step of a drain takes one
\* id from the ready queue and adds none, so a drain pass ends with an empty
\* queue; an advance starts from the empty queue and leaves at most the one id
\* it fired, so past the first drain of run() the queue never holds more than
\* one id; and run() never dies of a full queue in a wake-up: the queue
\* overflows only in spawn.
C34_QueueAtMostOneAfterFirstDrain ==
    [][/\ adv'.op \in {"poll", "skip"}
          => (pc = "drain" /\ task_queue # <<>>
              /\ task_queue' = Tail(task_queue))
       /\ adv'.op \in {"advance", "return"} => task_queue = <<>>
       /\ adv'.op = "advance"
          => /\ Len(task_queue') <= 1
             /\ adv'.some => (task_queue' = <<adv'.waker>> /\ pc' = "drain")
             /\ ~adv'.some => task_queue' = <<>>
       /\ (pc = "drain" /\ Len(task_queue) <= 1) => Len(task_queue') <= 1
       /\ (pc # "panic" /\ pc' = "panic")
          => \/ adv'.op = "spawn" /\ Len(task_queue) = QueueCap
             \/ adv'.op = "advance" /\ ~adv'.some]_vars

\* C34 witness: with two tasks pending on timers past the first drain, an
\* advance has fired one entry and the queue holds the one id it woke.
C34_Witness ==
    /\ pc = "drain" /\ adv.op = "advance" /\ adv.some
    /\ polled >= 2
    /\ Cardinality(DOMAIN tasks) = 2 /\ waker_cache = DOMAIN tasks
    /\ Len(task_queue) = 1 /\ Len(waits) >= 1

(***************************************************************************)
(* Claims about the expiry of fired timers (checked under SpecSim)         *)
(***************************************************************************)

\* the advance of run() has fired the entry that the pending timer of the
\* woken task registered
FiresOwnTimer(a, ts) ==
    /\ a.op = "advance" /\ a.some
    /\ a.waker \in DOMAIN ts
    /\ ts[a.waker].reactor = "static"
    /\ ts[a.waker].timer.active /\ ts[a.waker].timer.already_registered
    /\ ts[a.waker].timer.duration = a.duration

\* when the reactor fires the entry registered by a timer, that timer has
\* expired right after the advance, and the next poll of the woken task
\* completes that timer
FiredTimerHasExpired ==
    /\ [][FiresOwnTimer(adv', tasks)
            => tasks[adv'.waker].timer.expired_at <= now(time')]_vars
    /\ [][(FiresOwnTimer(adv, tasks) /\ adv'.op = "poll")
            => /\ adv'.waker = adv.waker
               /\ \/ adv'.some
                  \/ Len(tasks'[adv.waker].durs) < Len(tasks[adv.waker].durs)]_vars

\* C35: whenever the reactor fires the entry registered by a timer, that
\* timer has expired right after the advance, so the woken task is Ready on
\* that timer at its next poll; consequently a run whose tasks suspend only
\* on timers awaited one at a time never reaches the deadlock branch (the
\* None arm of the match on advance_simulation in run()).
C35_NoDeadlock ==
    /\ FiredTimerHasExpired
    /\ [](~(pc = "panic" /\ adv.op = "advance" /\ ~adv.some))

(***************************************************************************)
(* Claims about the draws of the buggifier (checked under SpecBuggify)     *)
(***************************************************************************)

\* C36: a query consumes no RNG draw when the buggifier is disabled or when
\* the queried call-site has already fired (its key is in the fired set): it
\* returns false and leaves the RNG state and the fired set exactly as they
\* were, so it does not shift the draws of later queries.
C36_NoDrawWhenDisabledOrFired ==
    [][(/\ bq'.op = "query"
        /\ \/ ~random.some
           \/ line_of(impl, bq'.site) \in buggified_lines
           \/ hist[bq'.site].trues >= 1)
          => (/\ ~bq'.result
              /\ random' = random
              /\ buggified_lines' = buggified_lines)]_vars

\* C36 witness: on an enabled buggifier whose one draw so far fired a
\* call-site, that call-site was queried again with a probability below 1.0:
\* the answer is false and the RNG still stands after its first draw.
C36_Witness ==
    /\ bq.op = "query" /\ ~bq.result /\ bq.p < 100
    /\ random.some /\ random.pos = 1
    /\ hist[bq.site].trues = 1
    /\ buggified_lines = {line_of(impl, bq.site)}

(***************************************************************************)
(* Claims about the faults of a platform and its clones (SpecPlatform)     *)
(***************************************************************************)

Faults == {k \in DOMAIN opened : opened[k].fault}

\* C37: all open calls of a platform and of its clones query the buggifier at
\* one and the same call-site: the fired set never holds another key, across
\* all the calls at most one returns a fault-injected error, and every call
\* after the fault-injected one takes the latency path, whatever is drawn.
C37_OneFaultPerPlatform ==
    /\ buggified_lines \subseteq {line_of("circus_buggify", OpenSite)}
    /\ Cardinality(Faults) <= 1
    /\ (Faults # {}) = (buggified_lines # {})
    /\ \A j, k \in DOMAIN opened :
          (j < k /\ opened[j].fault)
             => /\ ~opened[k].fault
                /\ opened[k].latency >= 300
                /\ opened[k].result \in HostResults

\* C37 witness: the open of one task was fault-injected and the open of a
\* second task, on a clone of the platform, queried the fired call-site (no
\* further draw of the buggifier) and took the latency path.
C37_Witness ==
    /\ Len(opened) = 2
    /\ opened[1].fault /\ ~opened[2].fault
    /\ opened[1].task # opened[2].task
    /\ opened[2].latency >= 300
    /\ random.pos = 1 /\ platform_random.pos = 2

(***************************************************************************)
(* Claims about the two generators of a platform (SpecSeed42)              *)
(***************************************************************************)

\* the k-th Bernoulli draw of the buggifier's stream of seed 42 is its first
\* true one
FirstTrueDraw(k) ==
    /\ k <= Len(SmallRng42)
    /\ gen_bool(SmallRng42[k], DefaultProb)
    /\ \A j \in 1..(k - 1) : ~gen_bool(SmallRng42[j], DefaultProb)

\* C38: the buggifier's generator and the platform's generator are two
\* streams: each open takes exactly one draw of the platform's stream (fault
\* kind or latency) and one draw of the buggifier's stream until the call-site
\* has fired, none after; so the k-th open is fault-injected exactly when the
\* k-th draw of the buggifier's stream is its first true one, whatever
\* latencies and fault kinds the platform's stream yields.
C38_FaultDecidedByBuggifierStream ==
    /\ platform_random.pos = Len(opened)
    /\ random.pos = IF Faults = {} THEN Len(opened)
                    ELSE CHOOSE k \in Faults : \A j \in Faults : k <= j
    /\ \A k \in DOMAIN opened :
          /\ opened[k].fault <=> FirstTrueDraw(k)
          /\ opened[k].fault => opened[k].u \in Uniform01
          /\ ~opened[k].fault => opened[k].latency \in Latencies

\* C38 witness: ten calls were made with latencies that differ from call to
\* call; the platform's stream stands after ten draws and the buggifier's
\* after the nine it took up to the fault.
C38_Witness ==
    /\ Len(opened) = TenCalls
    /\ platform_random.pos = 10 /\ random.pos = 9
    /\ opened[9].fault /\ opened[9].u = 5
    /\ opened[2].latency = 300 /\ opened[3].latency = 1999
    /\ opened[10].latency = 817

(***************************************************************************)
(* Claims about stale reactor entries (checked under Spec)                 *)
(***************************************************************************)

\* the reactor holds an entry whose task has completed
Stale(ws, ts) == {i \in DOMAIN ws : ws[i].waker \notin DOMAIN ts}

\* C39: a timer that is already expired at its first poll (duration zero)
\* still registers its entry and completes without removing it; a stale entry
\* is fired like any other (the clock advances by its duration and its TaskId
\* is enqueued), the executor skips that id without polling when the task has
\* completed, and run() returns without touching the entries left in the
\* reactor.
C39_StaleEntry ==
    [][/\ (adv'.op = "poll" /\ adv'.waker \in DOMAIN tasks
            /\ ~tasks[adv'.waker].timer.active
            /\ tasks[adv'.waker].durs # <<>>
            /\ Head(tasks[adv'.waker].durs) = 0)
          => /\ Len(waits') > Len(waits)
             /\ waits'[Len(waits) + 1] = ReactorEntry(0, adv'.waker, regs + 1)
             /\ SubSeq(waits', 1, Len(waits)) = waits
             /\ adv'.waker \in DOMAIN tasks'
                   => Len(tasks'[adv'.waker].durs)
                         < Len(tasks[adv'.waker].durs)
       /\ (adv'.op = "advance" /\ adv'.some /\ adv'.waker \notin DOMAIN tasks)
          => /\ now(time') = now(time) + adv'.duration
             /\ Len(waits') = Len(waits) - 1
             /\ task_queue' = <<adv'.waker>>
             /\ pc' = "drain"
       /\ (adv.op = "advance" /\ adv.some /\ adv.waker \notin DOMAIN tasks)
          => /\ adv'.op = "skip" /\ adv'.waker = adv.waker
             /\ polled' = polled /\ tasks' = tasks
             /\ waker_cache' = waker_cache /\ waits' = waits
       /\ adv'.op = "return"
          => (waits' = waits /\ Stale(waits', tasks') = DOMAIN waits)]_vars

\* C39 witness: a task awaiting a timer of duration 0 completed at its first
\* poll and run() returned with the entry left in the reactor; in a second
\* run() with a new task pending on a timer of duration 1 the stale entry was
\* fired at an unchanged clock and its id skipped.
C39_Witness ==
    /\ adv.op = "skip" /\ adv.waker = 0
    /\ completed = <<>>
    /\ polled = 2 /\ regs = 2
    /\ DOMAIN tasks = {1}
    /\ waits = <<ReactorEntry(1, 1, 2)>>
    /\ now(time) = 0

(***************************************************************************)
(* Claims about the Buggifier shared by threads (checked under SpecThreads)*)
(***************************************************************************)

\* the thread is at a lock() call on a mutex that is held
Blocked(t) == Wants(t) # "none" /\ locks[Wants(t)] # 0

\* a set of threads each waiting for a mutex held by a thread of the set
Deadlocked ==
    \E T \in SUBSET Threads \ {{}} :
        \A t \in T : Blocked(t) /\ locks[Wants(t)] \in T

\* the thread is between the fired-set check and the return of a query
InQueryBody(t) ==
    threads[t].pc \in {"q_check", "q_draw", "q_insert", "q_unlock_lines"}

\* C40: a query makes its fired-set check, its draw and its insert while it
\* holds both mutexes, taken in the order random, then fired set, the order
\* disable uses too: no other thread writes the RNG or the fired set in
\* between, threads that query one call-site of an enabled buggifier
\* concurrently obtain true at most once (per call-site, with no disable in
\* between), and no set of threads inside query, enable and disable calls
\* wait for each other's mutexes.
C40_QueryAtomicNoDeadlock ==
    /\ [](\A t \in Threads :
             InQueryBody(t) => (locks["random"] = t
                                /\ locks["buggified_lines"] = t))
    /\ [][\A t \in Threads :
             (InQueryBody(t) /\ threads'[t] = threads[t])
                => (random' = random /\ buggified_lines' = buggified_lines)]_vars
    /\ [](\A s \in DOMAIN hist : hist[s].trues <= 1)
    /\ [](\A t, o \in Threads :
             (t # o /\ threads[t].result /\ threads[o].result)
                => threads[t].site # threads[o].site)
    /\ [](~Deadlocked)

\* C40 witness: a thread has fired a call-site and still holds both mutexes
\* while a second thread, querying the same call-site, waits at the lock of
\* the RNG; before, a query at that call-site had returned false.
C40_Witness ==
    /\ threads[1].pc = "q_unlock_lines" /\ threads[1].result
    /\ threads[2].pc = "q_lock_random"
    /\ threads[2].site = threads[1].site
    /\ Blocked(2)
    /\ hist[threads[1].site].first = "false"
    /\ line_of(impl, threads[1].site) \in buggified_lines

====
